---------------------------- MODULE Spec2Model ----------------------------
(***************************************************************************)
(* Model of the reconciliation pipeline of auto_table_core.py:             *)
(* load_main_df, load_starlink_df and get_table_data.                      *)
(*                                                                         *)
(* A text value is a sequence of one-character strings, so that trimming,  *)
(* case folding, substring search, date parsing and date formatting are    *)
(* computed character by character, as the code computes them.             *)
(***************************************************************************)
EXTENDS Integers, Sequences, FiniteSets, TLC

(***************************************************************************)
(* Text primitives (Python str / pandas .str accessors).                   *)
(***************************************************************************)

\* The characters of the model's texts, in code-point order.
Alphabet ==
  << " ", "#", "(", ")", "*", ",", "-", ".", "/",
     "0", "1", "2", "3", "4", "5", "6", "7", "8", "9", ":", "?",
     "A", "B", "C", "D", "E", "F", "G", "H", "I", "J", "K", "L", "M",
     "N", "O", "P", "Q", "R", "S", "T", "U", "V", "W", "X", "Y", "Z", "_",
     "a", "b", "c", "d", "e", "f", "g", "h", "i", "j", "k", "l", "m",
     "n", "o", "p", "q", "r", "s", "t", "u", "v", "w", "x", "y", "z" >>

UpperLetters ==
  << "A", "B", "C", "D", "E", "F", "G", "H", "I", "J", "K", "L", "M",
     "N", "O", "P", "Q", "R", "S", "T", "U", "V", "W", "X", "Y", "Z" >>

LowerLetters ==
  << "a", "b", "c", "d", "e", "f", "g", "h", "i", "j", "k", "l", "m",
     "n", "o", "p", "q", "r", "s", "t", "u", "v", "w", "x", "y", "z" >>

Digits == << "0", "1", "2", "3", "4", "5", "6", "7", "8", "9" >>

\* ord(c)
Code(c) == CHOOSE i \in 1..Len(Alphabet) : Alphabet[i] = c

\* str.isspace for one character
IsSpace(c) == c = " "

IsDigit(c) == \E i \in 1..10 : Digits[i] = c

DigitVal(c) == (CHOOSE i \in 1..10 : Digits[i] = c) - 1

\* str.lower for one character
LowerChar(c) ==
  IF \E i \in 1..26 : UpperLetters[i] = c
    THEN LowerLetters[CHOOSE i \in 1..26 : UpperLetters[i] = c]
    ELSE c

\* str.lower
RECURSIVE Lower(_)
Lower(s) == IF s = << >> THEN << >> ELSE << LowerChar(Head(s)) >> \o Lower(Tail(s))

RECURSIVE LStrip(_)
LStrip(s) == IF s # << >> /\ IsSpace(Head(s)) THEN LStrip(Tail(s)) ELSE s

RECURSIVE RStrip(_)
RStrip(s) ==
  IF s # << >> /\ IsSpace(s[Len(s)]) THEN RStrip(SubSeq(s, 1, Len(s) - 1)) ELSE s

\* str.strip
Strip(s) == RStrip(LStrip(s))

\* needle in hay (literal substring test)
Contains(hay, needle) ==
  \E i \in 1..(Len(hay) - Len(needle) + 1) :
    SubSeq(hay, i, i + Len(needle) - 1) = needle

\* a < b on str: lexicographic by code point
RECURSIVE StrLess(_, _)
StrLess(a, b) ==
  IF b = << >> THEN FALSE
  ELSE IF a = << >> THEN TRUE
  ELSE IF Head(a) = Head(b) THEN StrLess(Tail(a), Tail(b))
  ELSE Code(Head(a)) < Code(Head(b))

\* pd.NA / NaN cell: no text is equal to it
NA == << "NaN" >>

\* Series.fillna("")
FillNa(v) == IF v = NA THEN << >> ELSE v

\* the set of elements of a sequence
Range(s) == {s[i] : i \in 1..Len(s)}

(***************************************************************************)
(* datetime.strptime, as _strptime compiles a format to a regular          *)
(* expression: each directive is an ordered alternation, a blank of the    *)
(* format is \s+, and the match must consume the whole text.               *)
(***************************************************************************)

MonthAbbr ==
  << <<"j","a","n">>, <<"f","e","b">>, <<"m","a","r">>, <<"a","p","r">>,
     <<"m","a","y">>, <<"j","u","n">>, <<"j","u","l">>, <<"a","u","g">>,
     <<"s","e","p">>, <<"o","c","t">>, <<"n","o","v">>, <<"d","e","c">> >>

MonthFull ==
  << <<"j","a","n","u","a","r","y">>, <<"f","e","b","r","u","a","r","y">>,
     <<"m","a","r","c","h">>, <<"a","p","r","i","l">>, <<"m","a","y">>,
     <<"j","u","n","e">>, <<"j","u","l","y">>, <<"a","u","g","u","s","t">>,
     <<"s","e","p","t","e","m","b","e","r">>, <<"o","c","t","o","b","e","r">>,
     <<"n","o","v","e","m","b","e","r">>, <<"d","e","c","e","m","b","e","r">> >>

\* strftime("%b"): the month's abbreviated name
MonthAbbrOut ==
  << <<"J","a","n">>, <<"F","e","b">>, <<"M","a","r">>, <<"A","p","r">>,
     <<"M","a","y">>, <<"J","u","n">>, <<"J","u","l">>, <<"A","u","g">>,
     <<"S","e","p">>, <<"O","c","t">>, <<"N","o","v">>, <<"D","e","c">> >>

\* the text from position j on starts with w, ignoring case
StartsWithCI(s, j, w) ==
  /\ j + Len(w) - 1 <= Len(s)
  /\ Lower(SubSeq(s, j, j + Len(w) - 1)) = w

\* the number written by the n digits at position j, or -1
NumAt(s, j, n) ==
  IF j + n - 1 <= Len(s) /\ \A i \in j..(j + n - 1) : IsDigit(s[i])
    THEN IF n = 1 THEN DigitVal(s[j])
         ELSE IF n = 2 THEN 10 * DigitVal(s[j]) + DigitVal(s[j + 1])
         ELSE 1000 * DigitVal(s[j]) + 100 * DigitVal(s[j + 1])
              + 10 * DigitVal(s[j + 2]) + DigitVal(s[j + 3])
    ELSE -1

\* the length of the run of blanks at position j
RECURSIVE SpaceRun(_, _)
SpaceRun(s, j) ==
  IF j <= Len(s) /\ IsSpace(s[j]) THEN 1 + SpaceRun(s, j + 1) ELSE 0

\* The alternatives of one format token at position j, in the order the
\* regular expression tries them: <<length, field, value>>.
Candidates(tok, s, j) ==
  LET two == NumAt(s, j, 2)
      one == NumAt(s, j, 1)
      sel(q, t) == IF t THEN << q >> ELSE << >>
  IN
  CASE tok = "%d" ->
         sel(<<2, "d", two>>, two >= 30 /\ two <= 31)
         \o sel(<<2, "d", two>>, two >= 10 /\ two <= 29)
         \o sel(<<2, "d", two>>, two >= 1 /\ two <= 9)
         \o sel(<<1, "d", one>>, one >= 1)
         \o sel(<<2, "d", NumAt(s, j + 1, 1)>>,
                j <= Len(s) /\ s[j] = " " /\ NumAt(s, j + 1, 1) >= 1)
    [] tok = "%m" ->
         sel(<<2, "m", two>>, two >= 10 /\ two <= 12)
         \o sel(<<2, "m", two>>, two >= 1 /\ two <= 9)
         \o sel(<<1, "m", one>>, one >= 1)
    [] tok = "%y" ->
         sel(<<2, "y", IF two <= 68 THEN 2000 + two ELSE 1900 + two>>, two >= 0)
    [] tok = "%Y" ->
         sel(<<4, "y", NumAt(s, j, 4)>>, NumAt(s, j, 4) >= 0)
    [] tok = "%b" ->
         LET hit == {i \in 1..12 : StartsWithCI(s, j, MonthAbbr[i])} IN
         IF hit = {} THEN << >> ELSE << <<3, "m", CHOOSE i \in hit : TRUE>> >>
    [] tok = "%B" ->
         LET hit == {i \in 1..12 : StartsWithCI(s, j, MonthFull[i])} IN
         IF hit = {} THEN << >>
         ELSE LET i == CHOOSE i \in hit : TRUE IN << <<Len(MonthFull[i]), "m", i>> >>
    [] tok = " " ->
         LET n == SpaceRun(s, j) IN [i \in 1..n |-> <<n + 1 - i, "", 0>>]
    [] OTHER ->
         sel(<<1, "", 0>>, j <= Len(s) /\ LowerChar(s[j]) = LowerChar(tok))

NoMatch == [ok |-> FALSE, end |-> 0, y |-> 0, m |-> 0, d |-> 0]

RECURSIVE MatchFrom(_, _, _, _, _)
RECURSIVE TryCands(_, _, _, _, _, _, _)
\* re.match of the format's tokens k.. at position j of s
MatchFrom(fmt, k, s, j, acc) ==
  IF k > Len(fmt) THEN [acc EXCEPT !.ok = TRUE, !.end = j]
  ELSE TryCands(fmt, k, s, j, acc, Candidates(fmt[k], s, j), 1)
TryCands(fmt, k, s, j, acc, cands, i) ==
  IF i > Len(cands) THEN NoMatch
  ELSE LET c == cands[i]
           acc2 == IF c[2] = "y" THEN [acc EXCEPT !.y = c[3]]
                   ELSE IF c[2] = "m" THEN [acc EXCEPT !.m = c[3]]
                   ELSE IF c[2] = "d" THEN [acc EXCEPT !.d = c[3]]
                   ELSE acc
           r == MatchFrom(fmt, k + 1, s, j + c[1], acc2)
       IN IF r.ok THEN r ELSE TryCands(fmt, k, s, j, acc, cands, i + 1)

IsLeap(y) == (y % 4 = 0 /\ y % 100 # 0) \/ y % 400 = 0

DaysInMonth(y, m) ==
  IF m = 2 THEN (IF IsLeap(y) THEN 29 ELSE 28)
  ELSE IF m \in {4, 6, 9, 11} THEN 30 ELSE 31

\* pd.NaT: the absent date or time
NaT == << >>

\* A timestamp is <<date, minute of the day>>, the date one number ordered
\* as dates are.
DateOf(y, m, d) == << y * 10000 + m * 100 + d, 0 >>
YearOf(ts) == ts[1] \div 10000
MonthOf(ts) == (ts[1] \div 100) % 100
DayOf(ts) == ts[1] % 100

\* the date of the match r of the text val: NaT where strptime raises (no
\* match, unconverted data remains, no such day)
MatchedDate(r, val) ==
  IF ~r.ok THEN NaT
  ELSE IF r.end # Len(val) + 1 THEN NaT
  ELSE IF r.y < 1 \/ r.d > DaysInMonth(r.y, r.m) THEN NaT
  ELSE DateOf(r.y, r.m, r.d)

\* datetime.strptime(val, fmt): the date, or NaT where strptime raises
Strptime(val, fmt) == MatchedDate(MatchFrom(fmt, 1, val, 1, NoMatch), val)

(***************************************************************************)
(* The sheets the loaders read: the model's inputs.                        *)
(***************************************************************************)

\* main row: scheduled "02/04/2026", installed, invited; padded Region and key
M1 ==
  [Region    |-> << "C", "A", "R", " " >>,
   Province  |-> << "A", "b", "r", "a" >>,
   BEIS      |-> << " ", "1", "0", "1" >>,
   Sched     |-> << "0", "2", "/", "0", "4", "/", "2", "0", "2", "6" >>,
   SchedEnd  |-> << >>,
   Start     |-> << "9", ":", "0", "0", " ", "A", "M" >>,
   End       |-> << "5", ":", "0", "0", " ", "P", "M" >>,
   Outcome   |-> << "S", "1", " ", "-", " ", "I", "n", "s", "t", "a", "l", "l", "e", "d", " ", "(", "S", "u", "c", "c", "e", "s", "s", ")" >>,
   Blocker   |-> << >>,
   Calendar  |-> << "I", "n", "v", "i", "t", "e", " ", "S", "e", "n", "t" >>,
   Final     |-> << "D", "o", "n", "e" >>,
   Validated |-> << "Y", "e", "s" >>]

\* main row: the sort keys of M1 (the same day written otherwise), other cells differ
M2 ==
  [Region    |-> << "C", "A", "R" >>,
   Province  |-> << "A", "b", "r", "a" >>,
   BEIS      |-> << "1", "0", "1" >>,
   Sched     |-> << "F", "e", "b", ".", " ", "0", "4", ",", " ", "2", "0", "2", "6" >>,
   SchedEnd  |-> << >>,
   Start     |-> << "9", ":", "0", "0", " ", "A", "M" >>,
   End       |-> << "5", ":", "0", "0", " ", "P", "M" >>,
   Outcome   |-> << >>,
   Blocker   |-> << "N", "o", " ", "p", "o", "w", "e", "r", " " >>,
   Calendar  |-> << >>,
   Final     |-> << >>,
   Validated |-> << >>]

\* main row: an earlier day with an end date, an afternoon start, no end time
M3 ==
  [Region    |-> << "N", "I", "R" >>,
   Province  |-> << "C", "e", "b", "u" >>,
   BEIS      |-> << "1", "0", "2" >>,
   Sched     |-> << "0", "3", "-", "F", "e", "b", "-", "2", "6" >>,
   SchedEnd  |-> << "0", "5", "/", "0", "2", "/", "2", "0", "2", "6" >>,
   Start     |-> << "1", ":", "0", "0", " ", "P", "M" >>,
   End       |-> << >>,
   Outcome   |-> << "S", "2", " ", "-", " ", "F", "a", "i", "l", "e", "d" >>,
   Blocker   |-> << >>,
   Calendar  |-> << "I", "n", "v", "i", "t", "e", " ", "S", "e", "n", "t", " ", "v", "i", "a", " ", "e", "m", "a", "i", "l" >>,
   Final     |-> << " ", "D", "o", "n", "e" >>,
   Validated |-> << "N", "o" >>]

\* main row: unscheduled, and without a key
M4 ==
  [Region    |-> << "R", "e", "g", "i", "o", "n", " ", "X" >>,
   Province  |-> << "B", "u", "k", "i", "d", "n", "o", "n" >>,
   BEIS      |-> << " " >>,
   Sched     |-> << " " >>,
   SchedEnd  |-> << >>,
   Start     |-> << >>,
   End       |-> << >>,
   Outcome   |-> << >>,
   Blocker   |-> << "F", "o", "r", " ", "s", "u", "r", "v", "e", "y" >>,
   Calendar  |-> << "i", "n", "v", "i", "t", "e", " ", "s", "e", "n", "t" >>,
   Final     |-> << >>,
   Validated |-> << >>]

\* main row: a schedule no format parses and a start time with a leading blank
M5 ==
  [Region    |-> << "C", "A", "R" >>,
   Province  |-> << "A", "p", "a", "y", "a", "o" >>,
   BEIS      |-> << "1", "0", "2" >>,
   Sched     |-> << "T", "B", "D" >>,
   SchedEnd  |-> << >>,
   Start     |-> << " ", "9", ":", "0", "0", " ", "A", "M" >>,
   End       |-> << "5", ":", "0", "0", " ", "P", "M" >>,
   Outcome   |-> << "s", "1", " ", "-", " ", "i", "n", "s", "t", "a", "l", "l", "e", "d", " ", "(", "s", "u", "c", "c", "e", "s", "s", ")" >>,
   Blocker   |-> << >>,
   Calendar  |-> << "S", "e", "n", "t" >>,
   Final     |-> << "D", "o", "n", "e" >>,
   Validated |-> << >>]

\* main row: an ISO schedule, which only the fallback parser reads; no Region
M6 ==
  [Region    |-> << >>,
   Province  |-> << "A", "b", "r", "a" >>,
   BEIS      |-> << "1", "0", "4" >>,
   Sched     |-> << "2", "0", "2", "6", "-", "0", "2", "-", "0", "3" >>,
   SchedEnd  |-> << "T", "B", "D" >>,
   Start     |-> << "0", "9", ":", "0", "0", " ", "a", "m" >>,
   End       |-> << "1", "2", ":", "3", "0", " ", "P", "M" >>,
   Outcome   |-> << "S", "2", " ", "-", " ", "F", "a", "i", "l", "e", "d" >>,
   Blocker   |-> << >>,
   Calendar  |-> << "I", "n", "v", "i", "t", "e", " ", "S", "e", "n", "t" >>,
   Final     |-> << >>,
   Validated |-> << "Y", "e", "s" >>]

\* main row: M6 scheduled at ten o'clock of the same day
M7 == [M6 EXCEPT !.Sched = << "2", "0", "2", "6", "-", "0", "2", "-", "0", "3", " ", "1", "0", ":", "0", "0" >>,
                 !.BEIS = << "1", "0", "5" >>]

\* Starlink row: activated and accepted
S1 ==
  [BEIS     |-> << " ", "1", "0", "1" >>,
   Status   |-> << "A", "c", "t", "i", "v", "a", "t", "e", "d" >>,
   Approval |-> << "A", "c", "c", "e", "p", "t", "e", "d", " ", "v", "i", "a", " ", "e", "m", "a", "i", "l" >>]

\* Starlink row: the key of S1, blank values
S2 ==
  [BEIS     |-> << "1", "0", "1", " " >>,
   Status   |-> << >>,
   Approval |-> << " " >>]

\* Starlink row: no key
S3 ==
  [BEIS     |-> << " " >>,
   Status   |-> << "A", "c", "t", "i", "v", "a", "t", "e", "d" >>,
   Approval |-> << "D", "e", "c", "l", "i", "n", "e", "d" >>]

\* Starlink row: an approval text with both "accept" and "declin"
S4 ==
  [BEIS     |-> << "1", "0", "2" >>,
   Status   |-> << "N", "o", "t", " ", "A", "c", "t", "i", "v", "a", "t", "e", "d" >>,
   Approval |-> << "A", "c", "c", "e", "p", "t", " ", "o", "r", " ", "D", "e", "c", "l", "i", "n", "e" >>]

\* Starlink row: a pending approval with a text
S5 ==
  [BEIS     |-> << "1", "0", "4" >>,
   Status   |-> << "a", "c", "t", "i", "v", "a", "t", "e", "d" >>,
   Approval |-> << "F", "o", "r", " ", "r", "e", "v", "i", "e", "w" >>]

MainPool == {M1, M2, M3, M4, M5, M6}
StarPool == {S1, S2, S3, S4, S5}

(***************************************************************************)
(* get_table_data: schedule parsing and display.                           *)
(***************************************************************************)

\* _parse_schedule's explicit formats, in the order they are tried
fmts ==
  << << "%b", " ", "%d", ",", " ", "%Y" >>,
     << "%b", ".", " ", "%d", ",", " ", "%Y" >>,
     << "%B", " ", "%d", ",", " ", "%Y" >>,
     << "%d", "-", "%b", "-", "%y" >>,
     << "%d", "-", "%b", "-", "%Y" >>,
     << "%m", "/", "%d", "/", "%y" >>,
     << "%m", "/", "%d", "/", "%Y" >>,
     << "%d", "/", "%m", "/", "%y" >>,
     << "%d", "/", "%m", "/", "%Y" >> >>

\* pd.to_datetime(val, errors="raise") on a text no explicit format parsed:
\* an ISO date YYYY-MM-DD is parsed; the model's other texts (which name no
\* month and hold no date) make it raise, which the caller turns into NaT.
IsoDate(val) == Strptime(val, << "%Y", "-", "%m", "-", "%d" >>)

\* the timestamp of an ISO date d with the time h:mi, NaT where either is
\* none
IsoDateTime(d, h, mi) ==
  IF d = NaT \/ h < 0 \/ h > 23 \/ mi < 0 \/ mi > 59 THEN NaT
  ELSE << d[1], h * 60 + mi >>

\* "Mon. DD, YY" as the fallback's date parser reads it: the two digits are
\* a year of this century (for the years below 69, where %y agrees)
ShortYearDate(val) ==
  Strptime(val, << "%b", ".", " ", "%d", ",", " ", "%y" >>)

\* An ISO date may be followed by a time of day, "YYYY-MM-DD HH:MM".
PandasToDatetime(val) ==
  IF Len(val) = 16 /\ val[11] \in {" ", "T"} /\ val[14] = ":"
    THEN IsoDateTime(IsoDate(SubSeq(val, 1, 10)), NumAt(val, 12, 2), NumAt(val, 15, 2))
    ELSE IF IsoDate(val) # NaT THEN IsoDate(val)
    ELSE ShortYearDate(val)

RECURSIVE TryFormats(_, _)
\* return the date format i gave, or go on with the next format
FirstParsed(ts, val, i) == IF ts # NaT THEN ts ELSE TryFormats(val, i + 1)

\* for fmt in fmts: try strptime; then the fallback
TryFormats(val, i) ==
  IF i > Len(fmts) THEN PandasToDatetime(val)
  ELSE FirstParsed(Strptime(val, fmts[i]), val, i)

\* What the formats and the fallback make of each schedule text of the
\* sheets, computed once: a table of TryFormats, for the evaluation's sake.
RECURSIVE ParsedTable(_)
ParsedTable(texts) ==
  IF texts = {} THEN << >>
  ELSE LET s == CHOOSE x \in texts : TRUE
       IN (s :> TryFormats(s, 1)) @@ ParsedTable(texts \ {s})

Parsed ==
  ParsedTable(({Strip(r.Sched) : r \in MainPool \cup {M7}}
               \cup {Strip(r.SchedEnd) : r \in MainPool}) \ {<< >>})

\* the date of val in the table, or computed where the table has no val
Lookup(table, val) ==
  IF val \in DOMAIN table THEN table[val] ELSE TryFormats(val, 1)

\* _parse_schedule on a stripped text
ParseStripped(val) == IF val = << >> THEN NaT ELSE Lookup(Parsed, val)

_parse_schedule(raw) == ParseStripped(Strip(raw))

\* str(n) for n >= 0
RECURSIVE IntToStr(_)
IntToStr(n) ==
  IF n < 10 THEN << Digits[n + 1] >>
  ELSE IntToStr(n \div 10) \o << Digits[(n % 10) + 1] >>

\* ts.strftime("%b. %d, %Y")
Strftime(ts) ==
  MonthAbbrOut[MonthOf(ts)] \o << ".", " " >>
  \o << Digits[(DayOf(ts) \div 10) + 1], Digits[(DayOf(ts) % 10) + 1] >>
  \o << ",", " " >> \o IntToStr(YearOf(ts))

\* _format_schedule(row): "<start> - <end>", the end "-" when there is none
start_text(Schedule_sort, Schedule) ==
  IF Schedule_sort # NaT THEN Strftime(Schedule_sort) ELSE Schedule

end_text(end_raw, ts_end) ==
  IF end_raw = << >> THEN << "-" >>
  ELSE IF ts_end # NaT THEN Strftime(ts_end) ELSE end_raw

\* f"{start_text} - {end_text}", or "" when there is no start text
StartEnd(start, end) ==
  IF start = << >> THEN << >> ELSE start \o << " ", "-", " " >> \o end

_format_schedule(Schedule_sort, Schedule, Schedule_end_raw) ==
  StartEnd(start_text(Schedule_sort, Schedule),
           end_text(Strip(Schedule_end_raw), _parse_schedule(Schedule_end_raw)))

\* pd.to_datetime(text, errors="coerce", format="%I:%M %p"): that time on
\* 1900-01-01, or NaT
ParseTime(text) ==
  LET colon == CHOOSE j \in 1..(Len(text) + 1) : j = Len(text) + 1 \/ text[j] = ":"
      h == IF colon = 3 THEN NumAt(text, 1, 2)
           ELSE IF colon = 2 THEN NumAt(text, 1, 1) ELSE -1
      rest == SubSeq(text, colon + 1, Len(text))
      mlen == IF NumAt(rest, 1, 2) >= 0 /\ NumAt(rest, 1, 2) <= 59 THEN 2
              ELSE IF NumAt(rest, 1, 1) >= 0 THEN 1 ELSE 0
      mi == IF mlen = 0 THEN -1 ELSE NumAt(rest, 1, mlen)
      sp == SpaceRun(rest, mlen + 1)
      ap == Lower(SubSeq(rest, mlen + sp + 1, Len(rest)))
  IN IF h < 1 \/ h > 12 \/ mi < 0 \/ sp < 1 THEN NaT
     ELSE IF ap = << "a", "m" >> THEN << 19000101, (h % 12) * 60 + mi >>
     ELSE IF ap = << "p", "m" >> THEN << 19000101, (h % 12) * 60 + 720 + mi >>
     ELSE NaT

(***************************************************************************)
(* The loaders.  A sheet, as _load_df returns it, is its set of column     *)
(* headers and its rows; a row of the main sheet has the cells             *)
(*   Region, Province, BEIS, Sched, SchedEnd, Start, End, Outcome,         *)
(*   Blocker, Calendar, Final, Validated                                   *)
(* and a row of the Starlink sheet the cells BEIS, Status, Approval.       *)
(***************************************************************************)

APPROVAL_COL == "Approval (Accepted / Decline) "

StarRequired == {"BEIS School ID", "Status of Activation", APPROVAL_COL}

MainRequired ==
  {"Region", "Province", "BEIS School ID", "SCHEDULE_COL", "SCHEDULE_END_COL",
   "Start Time", "End Time", "OUTCOME_COL", "BLOCKER_COL", "Status of Calendar"}

MainOptional == {"Final Status", "Validated?"}

\* df.replace({"": pd.NA}) on one cell
EmptyToNa(v) == IF v = << >> THEN NA ELSE v

\* rows[mask]: the rows at the positions of mask, in order
SelectRows(rows, mask) ==
  LET RECURSIVE pick(_)
      pick(i) == IF i > Len(rows) THEN << >>
                 ELSE (IF i \in mask THEN << rows[i] >> ELSE << >>) \o pick(i + 1)
  IN pick(1)

\* KeepLast with keep="first"
KeepFirst(rows) ==
  SelectRows(rows, {i \in 1..Len(rows) :
                      \A j \in 1..(i - 1) : rows[j].BEIS # rows[i].BEIS})

\* drop_duplicates(subset=["BEIS School ID"], keep="last")
KeepLast(rows) ==
  SelectRows(rows, {i \in 1..Len(rows) :
                      \A j \in (i + 1)..Len(rows) : rows[j].BEIS # rows[i].BEIS})

\* load_starlink_df: the cleaned, de-duplicated rows (no rows: df.empty)
load_starlink_df(sheet) ==
  IF sheet.rows = << >> \/ ~(StarRequired \subseteq sheet.cols) THEN << >>
  ELSE LET RECURSIVE cleaned(_)
           cleaned(i) ==
             IF i > Len(sheet.rows) THEN << >>
             ELSE << [BEIS     |-> EmptyToNa(Strip(sheet.rows[i].BEIS)),
                      Status   |-> EmptyToNa(Strip(sheet.rows[i].Status)),
                      Approval |-> EmptyToNa(Strip(sheet.rows[i].Approval))] >>
                  \o cleaned(i + 1)
           clean == cleaned(1)
       IN KeepLast(SelectRows(clean, {i \in 1..Len(clean) : clean[i].BEIS # NA}))

\* lines 100-110: the headers of the main frame.  A blank first header (""
\* among the headers stands for it) is named "Region", and the end-date
\* column is added when the sheet has none.
MainHeaders(sheet) ==
  (IF "" \in sheet.cols THEN (sheet.cols \ {""}) \cup {"Region"} ELSE sheet.cols)
  \cup {"SCHEDULE_END_COL"}

\* lines 128-151: the columns kept and the text cells cleaned, each row with
\* its index label idx
RECURSIVE CleanedRows(_, _)
CleanedRows(sheet, i) ==
  IF i > Len(sheet.rows) THEN << >>
  ELSE << [idx       |-> i,
           Region    |-> Strip(sheet.rows[i].Region),
           Province  |-> Strip(sheet.rows[i].Province),
           BEIS      |-> Strip(sheet.rows[i].BEIS),
           Sched     |-> Strip(sheet.rows[i].Sched),
           SchedEnd  |-> IF "SCHEDULE_END_COL" \in sheet.cols
                           THEN Strip(sheet.rows[i].SchedEnd) ELSE << >>,
           Start     |-> sheet.rows[i].Start,
           End       |-> sheet.rows[i].End,
           Outcome   |-> Strip(sheet.rows[i].Outcome),
           Blocker   |-> Strip(sheet.rows[i].Blocker),
           Calendar  |-> Strip(sheet.rows[i].Calendar),
           Final     |-> IF "Final Status" \in sheet.cols
                           THEN sheet.rows[i].Final ELSE << >>,
           Validated |-> IF "Validated?" \in sheet.cols
                           THEN sheet.rows[i].Validated ELSE << >>] >>
       \o CleanedRows(sheet, i + 1)

\* load_main_df without the test of the required columns
load_main_df_unchecked(sheet) ==
  IF sheet.rows = << >> THEN [cols |-> MainRequired, rows |-> << >>]
  ELSE [cols |-> MainRequired \cup (MainOptional \cap sheet.cols),
        rows |-> CleanedRows(sheet, 1)]

\* load_main_df: the frame's columns and its cleaned rows
load_main_df(sheet) ==
  IF sheet.rows = << >> \/ ~(MainRequired \subseteq MainHeaders(sheet))
    THEN [cols |-> MainRequired, rows |-> << >>]
    ELSE [cols |-> MainRequired \cup (MainOptional \cap sheet.cols),
          rows |-> CleanedRows(sheet, 1)]

(***************************************************************************)
(* get_table_data: join and derived columns.                               *)
(***************************************************************************)

\* df_main.merge(df_star, on="BEIS School ID", how="left"): one row per
\* pair of a main row and a Starlink row with its key, in main order; a main
\* row with no partner once, its Starlink cells NaN
RECURSIVE Merge(_, _)
Merge(mainRows, star) ==
  IF mainRows = << >> THEN << >>
  ELSE LET r == Head(mainRows)
           hits == SelectRows(star, {k \in 1..Len(star) : star[k].BEIS = r.BEIS})
           RECURSIVE pairs(_)
           pairs(k) ==
             IF k > Len(hits) THEN << >>
             ELSE << [row |-> r, Status |-> hits[k].Status,
                      Approval |-> hits[k].Approval] >> \o pairs(k + 1)
           joined == IF hits = << >>
                       THEN << [row |-> r, Status |-> NA, Approval |-> NA] >>
                       ELSE pairs(1)
       IN joined \o Merge(Tail(mainRows), star)

\* _map_calendar_status that looks for "invite sent" inside the text,
\* ignoring case
_map_calendar_status_contains(val) ==
  LET v == Strip(val) IN
  IF v = << >> THEN << >>
  ELSE IF Contains(Lower(v), << "i", "n", "v", "i", "t", "e", " ", "s", "e", "n", "t" >>)
    THEN << "S", "e", "n", "t" >>
  ELSE << "I", "n", "v", "i", "t", "e", " ", "N", "o", "t", " ", "S", "e", "n", "t" >>

_map_calendar_status(val) ==
  LET v == Strip(val) IN
  IF v = << >> THEN << >>
  ELSE IF v = << "I","n","v","i","t","e"," ","S","e","n","t" >>
    THEN << "S","e","n","t" >>
  ELSE << "I","n","v","i","t","e"," ","N","o","t"," ","S","e","n","t" >>

\* df_merged with its derived columns (lines 189-290): hasApproval tells
\* whether the frame has the approval column, which only the merge adds
\* a row of df_merged with its derived columns (lines 197-290), from the
\* joined row j, its Schedule text and the date parsed from it
DerivedRow(j, star, Schedule, Schedule_sort) ==
  [idx |-> j.row.idx, Region |-> j.row.Region, Province |-> j.row.Province,
   BEIS |-> j.row.BEIS, Start |-> j.row.Start, End |-> j.row.End,
   Blocker |-> j.row.Blocker, Final |-> j.row.Final,
   Validated |-> j.row.Validated,
   Approval |-> j.Approval,
   Starlink |-> IF star # << >> THEN j.Status ELSE << >>,
   Installation |-> j.row.Outcome,
   CalendarStatus |-> _map_calendar_status(j.row.Calendar),
   Schedule |-> Schedule,
   Schedule_sort |-> Schedule_sort,
   Start_sort |-> ParseTime(j.row.Start),
   End_sort |-> ParseTime(j.row.End),
   Schedule_display |->
     _format_schedule(Schedule_sort, Schedule, Strip(FillNa(j.row.SchedEnd)))]

\* the derived columns of the joined rows i.. of base
RECURSIVE DerivedRows(_, _, _)
DerivedRows(base, star, i) ==
  IF i > Len(base) THEN << >>
  ELSE << DerivedRow(base[i], star, Strip(FillNa(base[i].row.Sched)),
                     _parse_schedule(FillNa(base[i].row.Sched))) >>
       \o DerivedRows(base, star, i + 1)

MergedFrame(df_main, star) ==
  [hasApproval |-> star # << >>,
   hasFinal |-> "Final Status" \in df_main.cols,
   hasValidated |-> "Validated?" \in df_main.cols,
   rows |-> DerivedRows(Merge(df_main.rows, star), star, 1)]

(***************************************************************************)
(* get_table_data: sorting, filtering, options, statistics, rows.          *)
(***************************************************************************)

\* None, as an argument of get_table_data
NONE == << "None" >>

\* bool(v) of an optional text argument
Truthy(v) == v # NONE /\ v # << >>

\* (v or "")
OrEmpty(v) == IF v = NONE THEN << >> ELSE v

\* TsCmp with na_position="first"
TsCmpNaTFirst(a, b) ==
  IF a = b THEN 0
  ELSE IF a = NaT THEN -1
  ELSE IF b = NaT THEN 1
  ELSE IF a[1] # b[1] THEN (IF a[1] < b[1] THEN -1 ELSE 1)
  ELSE IF a[2] < b[2] THEN -1 ELSE 1

\* the order of two timestamps in sort_values: -1, 0 or 1, NaT last
TsCmp(a, b) ==
  IF a = b THEN 0
  ELSE IF a = NaT THEN 1
  ELSE IF b = NaT THEN -1
  ELSE IF a[1] # b[1] THEN (IF a[1] < b[1] THEN -1 ELSE 1)
  ELSE IF a[2] < b[2] THEN -1 ELSE 1

StrCmp(a, b) == IF a = b THEN 0 ELSE IF StrLess(a, b) THEN -1 ELSE 1

\* the sort key of a row: by=[Schedule_sort, Start_sort, End_sort, Region,
\* Province, BEIS School ID]
SortCmp(a, b) ==
  LET c == << TsCmp(a.Schedule_sort, b.Schedule_sort),
              TsCmp(a.Start_sort, b.Start_sort),
              TsCmp(a.End_sort, b.End_sort),
              StrCmp(a.Region, b.Region),
              StrCmp(a.Province, b.Province),
              StrCmp(a.BEIS, b.BEIS) >>
      d == {i \in 1..6 : c[i] # 0}
  IN IF d = {} THEN 0 ELSE c[CHOOSE i \in d : \A j \in d : i <= j]

\* InsertRow of a sort that is not stable: before the first row that does
\* not sort before r
InsertRowUnstable(sorted, r) ==
  LET later == {i \in 1..Len(sorted) : SortCmp(r, sorted[i]) <= 0}
      at == IF later = {} THEN Len(sorted) + 1
            ELSE CHOOSE i \in later : \A j \in later : i <= j
  IN SubSeq(sorted, 1, at - 1) \o << r >> \o SubSeq(sorted, at, Len(sorted))

\* where a stable sort puts row r in an already sorted sequence: before the
\* first row that sorts strictly after it
InsertRow(sorted, r) ==
  LET later == {i \in 1..Len(sorted) : SortCmp(r, sorted[i]) < 0}
      at == IF later = {} THEN Len(sorted) + 1
            ELSE CHOOSE i \in later : \A j \in later : i <= j
  IN SubSeq(sorted, 1, at - 1) \o << r >> \o SubSeq(sorted, at, Len(sorted))

\* df_merged.sort_values(by=[...], kind="stable")
RECURSIVE SortFrom(_, _, _)
SortFrom(rows, i, sorted) ==
  IF i > Len(rows) THEN sorted ELSE SortFrom(rows, i + 1, InsertRow(sorted, rows[i]))

sort_values(rows) == SortFrom(rows, 1, << >>)

Lot1 == << "L", "o", "t", " ", "#", "1" >>
Lot2 == << "L", "o", "t", " ", "#", "2" >>
Lot3 == << "L", "o", "t", " ", "#", "3" >>

\* lot_map: the regions of a lot
lot_map(lot) ==
  IF lot = Lot1 THEN
    { << "R", "e", "g", "i", "o", "n", " ", "I" >>,
      << "R", "e", "g", "i", "o", "n", " ", "I", "I" >>,
      << "R", "e", "g", "i", "o", "n", " ", "I", "I", "I" >>,
      << "R", "e", "g", "i", "o", "n", " ", "I", "V", "-", "A" >>,
      << "R", "e", "g", "i", "o", "n", " ", "I", "V", "-", "B" >>,
      << "M", "I", "M", "A", "R", "O", "P", "A" >>,
      << "R", "e", "g", "i", "o", "n", " ", "V" >>,
      << "C", "A", "R" >> }
  ELSE IF lot = Lot2 THEN
    { << "R", "e", "g", "i", "o", "n", " ", "V", "I" >>,
      << "R", "e", "g", "i", "o", "n", " ", "V", "I", "I" >>,
      << "R", "e", "g", "i", "o", "n", " ", "V", "I", "I", "I" >>,
      << "N", "I", "R" >> }
  ELSE
    { << "R", "e", "g", "i", "o", "n", " ", "I", "X" >>,
      << "R", "e", "g", "i", "o", "n", " ", "X" >>,
      << "R", "e", "g", "i", "o", "n", " ", "X", "I" >>,
      << "R", "e", "g", "i", "o", "n", " ", "X", "I", "I" >>,
      << "R", "e", "g", "i", "o", "n", " ", "C", "A", "R", "A", "G", "A" >> }

\* sorted(texts): the texts of a set in ascending order
RECURSIVE Sorted(_)
Sorted(S) ==
  IF S = {} THEN << >>
  ELSE LET m == CHOOSE x \in S : \A y \in S : y = x \/ StrLess(x, y)
       IN << m >> \o Sorted(S \ {m})

\* the pairs <<display, sort>> ordered by sort_values(["Schedule_sort",
\* "Schedule_display"])
RECURSIVE SortedPairs(_)
SortedPairs(S) ==
  IF S = {} THEN << >>
  ELSE LET Before(x, y) == \/ TsCmp(x[2], y[2]) < 0
                           \/ TsCmp(x[2], y[2]) = 0 /\ StrLess(x[1], y[1])
           m == CHOOSE x \in S : \A y \in S : y = x \/ Before(x, y)
       IN << m >> \o SortedPairs(S \ {m})

\* the option list of a text column: its distinct stripped non-empty values,
\* sorted (lines 346-386)
ColumnOptions(values) ==
  Sorted({Strip(FillNa(v)) : v \in values} \ {<< >>})

region_options(rows) ==
  Sorted({r \in {rows[i].Region : i \in 1..Len(rows)} : Strip(r) # << >>})

schedule_options(rows) ==
  LET pairs == SortedPairs({<<rows[i].Schedule_display, rows[i].Schedule_sort>> :
                              i \in 1..Len(rows)})
      shown == SelectRows(pairs, {i \in 1..Len(pairs) : pairs[i][1] # << >>})
      RECURSIVE firsts(_)
      firsts(i) == IF i > Len(shown) THEN << >> ELSE << shown[i][1] >> \o firsts(i + 1)
  IN firsts(1)

\* The pattern of the search box, a regular expression to pandas'
\* str.contains: re.compile raises on an unbalanced parenthesis and on a
\* leading repetition.  (Of the metacharacters, the model's needles use
\* only ".", "(", ")" and "*".)
RECURSIVE ParenDepth(_, _, _)
ParenDepth(pat, i, depth) ==
  IF depth < 0 THEN depth
  ELSE IF i > Len(pat) THEN depth
  ELSE ParenDepth(pat, i + 1,
         depth + (IF pat[i] = "(" THEN 1 ELSE IF pat[i] = ")" THEN -1 ELSE 0))

RegexCompiles(pat) ==
  /\ ParenDepth(pat, 1, 0) = 0
  /\ pat[1] \notin {"*", "?"}

\* re.search(pat, text, re.IGNORECASE) for a pattern of literals and "."
RegexSearch(pat, text) ==
  \E i \in 1..(Len(text) - Len(pat) + 1) :
    \A k \in 1..Len(pat) :
      pat[k] = "." \/ LowerChar(pat[k]) = LowerChar(text[i + k - 1])

\* the columns the search box looks into (lines 416-431)
SearchCells(df, r) ==
  << r.Region, r.Province, r.BEIS, r.Schedule_display, r.Installation, r.Starlink >>
  \o (IF df.hasApproval THEN << r.Approval >> ELSE << >>)
  \o (IF df.hasFinal THEN << r.Final >> ELSE << >>)
  \o (IF df.hasValidated THEN << r.Validated >> ELSE << >>)
  \o << r.Blocker >>

SearchHit(df, r, needle) ==
  \E c \in Range(SearchCells(df, r)) : RegexSearch(needle, FillNa(c))

BLANK == << "_", "_", "b", "l", "a", "n", "k", "_", "_" >>

\* the optional filters of lines 388-411, one mask each
RegionMask(rows, p) ==
  {i \in 1..Len(rows) : Truthy(p.selected_region) => rows[i].Region = p.selected_region}

ScheduleMask(rows, p) ==
  {i \in 1..Len(rows) :
     IF p.schedule_is_list
       THEN p.selected_schedule # << >>
              => rows[i].Schedule_display \in Range(p.selected_schedule)
       ELSE Truthy(p.selected_schedule)
              => rows[i].Schedule_display = p.selected_schedule}

InstallationMask(rows, p) ==
  {i \in 1..Len(rows) :
     Truthy(p.selected_installation) =>
       IF p.selected_installation = BLANK
         THEN Strip(FillNa(rows[i].Installation)) = << >>
         ELSE rows[i].Installation = p.selected_installation}

FinalMask(df, rows, p) ==
  {i \in 1..Len(rows) :
     (Truthy(p.selected_final) /\ df.hasFinal) => rows[i].Final = p.selected_final}

ValidatedMask(df, rows, p) ==
  {i \in 1..Len(rows) :
     (Truthy(p.selected_validated) /\ df.hasValidated)
       => rows[i].Validated = p.selected_validated}

SearchMask(df, rows, p) ==
  {i \in 1..Len(rows) :
     (Truthy(p.selected_search) /\ Strip(p.selected_search) # << >>)
       => SearchHit(df, rows[i], Strip(p.selected_search))}

\* whether the search box makes re.compile raise
SearchRaises(p) ==
  /\ Truthy(p.selected_search)
  /\ Strip(p.selected_search) # << >>
  /\ ~RegexCompiles(Strip(p.selected_search))

\* the series the statistics are computed from (lines 455-478)
\* star_series that reads every text containing "activated" as "activated"
star_series_contains(r) ==
  IF Contains(Lower(FillNa(r.Starlink)), << "a", "c", "t", "i", "v", "a", "t", "e", "d" >>)
    THEN << "a", "c", "t", "i", "v", "a", "t", "e", "d" >>
  ELSE Lower(Strip(FillNa(r.Starlink)))

star_series(r) == Lower(Strip(FillNa(r.Starlink)))
appr_series(r) == Lower(Strip(FillNa(r.Approval)))
cal_series(r) == Lower(Strip(FillNa(r.CalendarStatus)))
inst_series(r) == Lower(Strip(FillNa(r.Installation)))

ACTIVATED == << "a", "c", "t", "i", "v", "a", "t", "e", "d" >>
ACCEPT == << "a", "c", "c", "e", "p", "t" >>
DECLIN == << "d", "e", "c", "l", "i", "n" >>
SENT == << "s", "e", "n", "t" >>
INVITE_NOT_SENT == << "i", "n", "v", "i", "t", "e", " ", "n", "o", "t", " ", "s", "e", "n", "t" >>
S1_SUCCESS == << "s", "1", " ", "-", " ", "i", "n", "s", "t", "a", "l", "l", "e", "d", " ", "(", "s", "u", "c", "c", "e", "s", "s", ")" >>
PENDING == << "P", "e", "n", "d", "i", "n", "g" >>

TileNames ==
  { << "s", "t", "a", "r", "_", "a", "c", "t", "i", "v", "a", "t", "e", "d" >>,
    << "s", "t", "a", "r", "_", "n", "o", "t", "_", "a", "c", "t", "i", "v", "a", "t", "e", "d" >>,
    << "a", "p", "p", "r", "o", "v", "a", "l", "_", "a", "c", "c", "e", "p", "t", "e", "d" >>,
    << "a", "p", "p", "r", "o", "v", "a", "l", "_", "p", "e", "n", "d", "i", "n", "g" >>,
    << "a", "p", "p", "r", "o", "v", "a", "l", "_", "d", "e", "c", "l", "i", "n", "e" >>,
    << "c", "a", "l", "e", "n", "d", "a", "r", "_", "s", "e", "n", "t" >>,
    << "c", "a", "l", "e", "n", "d", "a", "r", "_", "n", "o", "t", "_", "s", "e", "n", "t" >>,
    << "s", "1", "_", "s", "u", "c", "c", "e", "s", "s" >>,
    << "u", "n", "s", "c", "h", "e", "d", "u", "l", "e", "d" >> }

\* the mask of a tile (lines 480-510); any other tile keeps every row
TileHit(tile, r) ==
  IF tile = << "s", "t", "a", "r", "_", "a", "c", "t", "i", "v", "a", "t", "e", "d" >>
    THEN star_series(r) = ACTIVATED
  ELSE IF tile = << "s", "t", "a", "r", "_", "n", "o", "t", "_", "a", "c", "t", "i", "v", "a", "t", "e", "d" >>
    THEN star_series(r) # ACTIVATED
  ELSE IF tile = << "a", "p", "p", "r", "o", "v", "a", "l", "_", "a", "c", "c", "e", "p", "t", "e", "d" >>
    THEN Contains(appr_series(r), ACCEPT)
  ELSE IF tile = << "a", "p", "p", "r", "o", "v", "a", "l", "_", "p", "e", "n", "d", "i", "n", "g" >>
    THEN ~Contains(appr_series(r), ACCEPT) /\ ~Contains(appr_series(r), DECLIN)
  ELSE IF tile = << "a", "p", "p", "r", "o", "v", "a", "l", "_", "d", "e", "c", "l", "i", "n", "e" >>
    THEN Contains(appr_series(r), DECLIN)
  ELSE IF tile = << "c", "a", "l", "e", "n", "d", "a", "r", "_", "s", "e", "n", "t" >>
    THEN cal_series(r) = SENT
  ELSE IF tile = << "c", "a", "l", "e", "n", "d", "a", "r", "_", "n", "o", "t", "_", "s", "e", "n", "t" >>
    THEN cal_series(r) = INVITE_NOT_SENT
  ELSE IF tile = << "s", "1", "_", "s", "u", "c", "c", "e", "s", "s" >>
    THEN inst_series(r) = S1_SUCCESS
  ELSE IF tile = << "u", "n", "s", "c", "h", "e", "d", "u", "l", "e", "d" >>
    THEN Strip(FillNa(r.Schedule)) = << >>
  ELSE TRUE

TileMask(rows, p) ==
  LET tile == Strip(OrEmpty(p.selected_tile)) IN
  {i \in 1..Len(rows) : tile # << >> => TileHit(tile, rows[i])}

ZeroStats ==
  [active |-> FALSE, star_activated |-> 0, star_not_activated |-> 0,
   approval_accepted |-> 0, approval_pending |-> 0, approval_decline |-> 0,
   calendar_sent |-> 0, calendar_not_sent |-> 0, s1_success |-> 0,
   scheduled |-> 0, unscheduled |-> 0]

\* ApprovalPending without the declined rows taken off
ApprovalPendingNoDecline(total_rows, approval_accepted, approval_decline) ==
  total_rows - approval_accepted

\* approval_pending of lines 543-547
ApprovalPending(total_rows, approval_accepted, approval_decline) ==
  total_rows - approval_accepted - approval_decline

\* ComputeStats that counts every row as scheduled
ComputeStatsAllScheduled(rows) ==
  LET total_rows == Len(rows)
      N(S) == Cardinality(S)
      star_activated == N({i \in 1..Len(rows) : star_series(rows[i]) = ACTIVATED})
      approval_accepted ==
        N({i \in 1..Len(rows) : Contains(appr_series(rows[i]), ACCEPT)})
      approval_decline ==
        N({i \in 1..Len(rows) : Contains(appr_series(rows[i]), DECLIN)})
      unscheduled ==
        N({i \in 1..Len(rows) : Strip(FillNa(rows[i].Schedule)) = << >>})
  IN [active |-> TRUE,
      star_activated |-> star_activated,
      star_not_activated |-> total_rows - star_activated,
      approval_accepted |-> approval_accepted,
      approval_pending |->
        ApprovalPending(total_rows, approval_accepted, approval_decline),
      approval_decline |-> approval_decline,
      calendar_sent |-> N({i \in 1..Len(rows) : cal_series(rows[i]) = SENT}),
      calendar_not_sent |->
        N({i \in 1..Len(rows) : cal_series(rows[i]) = INVITE_NOT_SENT}),
      s1_success |-> N({i \in 1..Len(rows) : inst_series(rows[i]) = S1_SUCCESS}),
      scheduled |-> total_rows,
      unscheduled |-> unscheduled]

\* the statistics of a non-empty row set (lines 533-585)
ComputeStats(rows) ==
  LET total_rows == Len(rows)
      N(S) == Cardinality(S)
      star_activated == N({i \in 1..Len(rows) : star_series(rows[i]) = ACTIVATED})
      approval_accepted ==
        N({i \in 1..Len(rows) : Contains(appr_series(rows[i]), ACCEPT)})
      approval_decline ==
        N({i \in 1..Len(rows) : Contains(appr_series(rows[i]), DECLIN)})
      unscheduled ==
        N({i \in 1..Len(rows) : Strip(FillNa(rows[i].Schedule)) = << >>})
  IN [active |-> TRUE,
      star_activated |-> star_activated,
      star_not_activated |-> total_rows - star_activated,
      approval_accepted |-> approval_accepted,
      approval_pending |->
        ApprovalPending(total_rows, approval_accepted, approval_decline),
      approval_decline |-> approval_decline,
      calendar_sent |-> N({i \in 1..Len(rows) : cal_series(rows[i]) = SENT}),
      calendar_not_sent |->
        N({i \in 1..Len(rows) : cal_series(rows[i]) = INVITE_NOT_SENT}),
      s1_success |-> N({i \in 1..Len(rows) : inst_series(rows[i]) = S1_SUCCESS}),
      scheduled |-> total_rows - unscheduled,
      unscheduled |-> unscheduled]

\* ApprovalDisplay without the "Pending" default
ApprovalDisplayRaw(df, r) ==
  IF df.hasApproval THEN Strip(FillNa(r.Approval)) ELSE << >>

\* the display text of a row's approval (lines 593-601)
ApprovalDisplay(df, r) ==
  LET approval_raw == IF df.hasApproval THEN FillNa(r.Approval) ELSE << >>
      approval_text == Strip(approval_raw)
  IN IF approval_text = << >> THEN PENDING ELSE approval_text

\* one entry of the returned row list (lines 612-629)
OutputRow(df, r) ==
  [Region |-> r.Region,
   Province |-> r.Province,
   BEIS_School_ID |-> r.BEIS,
   Schedule |-> r.Schedule_display,
   Calendar_Status |-> r.CalendarStatus,
   Start_Time |-> r.Start,
   End_Time |-> r.End,
   Installation_Status |-> r.Installation,
   Starlink_Status |-> FillNa(r.Starlink),
   Approval |-> ApprovalDisplay(df, r),
   Final_Status |-> IF df.hasFinal THEN r.Final ELSE << >>,
   Validated |-> IF df.hasValidated THEN r.Validated ELSE << >>,
   Blocker |-> r.Blocker]

LotNames == {Lot1, Lot2, Lot3}

\* lines 292-332: the default view drops the unscheduled rows, the rows are
\* sorted, and a known lot keeps the rows of its regions
\* ScheduledRows that keeps every row, whatever include_unscheduled
ScheduledRowsAll(df, p) == df.rows

\* lines 292-295: the default view keeps the rows with a schedule
ScheduledRows(df, p) ==
  IF p.include_unscheduled THEN df.rows
  ELSE SelectRows(df.rows,
         {i \in 1..Len(df.rows) : df.rows[i].Schedule # << >>})

\* LotRows that keeps no row of a lot it does not know
LotRowsStrict(df_sorted, lot) ==
  IF lot = << >> THEN df_sorted
  ELSE SelectRows(df_sorted,
         {i \in 1..Len(df_sorted) :
            lot \in LotNames /\ df_sorted[i].Region \in lot_map(lot)})

\* LotRows that keeps every row, whatever the lot
LotRowsAll(df_sorted, lot) == df_sorted

\* lines 329-332: a known lot keeps the rows of its regions
LotRows(df_sorted, lot) ==
  IF lot \in LotNames
    THEN SelectRows(df_sorted,
           {i \in 1..Len(df_sorted) : df_sorted[i].Region \in lot_map(lot)})
    ELSE df_sorted

ViewRows(df, p) ==
  LotRows(sort_values(ScheduledRows(df, p)), Strip(OrEmpty(p.selected_lot)))


\* lines 388-437: each optional filter keeps the rows of its mask
ByRegion(rows, p) == SelectRows(rows, RegionMask(rows, p))
BySchedule(rows, p) == SelectRows(rows, ScheduleMask(rows, p))
ByInstallation(rows, p) == SelectRows(rows, InstallationMask(rows, p))
ByFinal(df, rows, p) == SelectRows(rows, FinalMask(df, rows, p))
ByValidated(df, rows, p) == SelectRows(rows, ValidatedMask(df, rows, p))
BySearch(df, rows, p) == SelectRows(rows, SearchMask(df, rows, p))

\* FilterRows with a search that selects from the rows as they were before
\* the other filters
FilterRowsSearchAll(df, rows, p) ==
  IF Truthy(p.selected_search) THEN BySearch(df, rows, p)
  ELSE ByValidated(df,
         ByFinal(df, ByInstallation(BySchedule(ByRegion(rows, p), p), p), p), p)

\* lines 388-437: the optional filters, applied one after the other
FilterRows(df, rows, p) ==
  BySearch(df,
    ByValidated(df,
      ByFinal(df, ByInstallation(BySchedule(ByRegion(rows, p), p), p), p), p), p)

\* for _, row in df_sorted.iterrows(): rows.append({...})
RECURSIVE OutputRows(_, _)
OutputRows(df, rows) ==
  IF rows = << >> THEN << >>
  ELSE << OutputRow(df, Head(rows)) >> \o OutputRows(df, Tail(rows))

\* df_sorted.index
RECURSIVE IndexOf(_)
IndexOf(rows) ==
  IF rows = << >> THEN << >> ELSE << Head(rows).idx >> \o IndexOf(Tail(rows))

\* what get_table_data returns when it raises
Raised(what) ==
  [raised |-> what, rows |-> << >>, index |-> << >>,
   region_options |-> << >>, schedule_options |-> << >>,
   installation_options |-> << >>, final_status_options |-> << >>,
   validated_options |-> << >>, stats |-> ZeroStats]

\* Returns that computes the statistics of an empty row list as well
ReturnsUnguarded(df, view, final) ==
  [raised |-> "none",
   rows |-> OutputRows(df, final),
   index |-> IndexOf(final),
   region_options |-> region_options(view),
   schedule_options |-> schedule_options(view),
   installation_options |->
     ColumnOptions({view[i].Installation : i \in 1..Len(view)}),
   final_status_options |->
     IF df.hasFinal THEN ColumnOptions({view[i].Final : i \in 1..Len(view)})
     ELSE << >>,
   validated_options |->
     IF df.hasValidated
       THEN ColumnOptions({view[i].Validated : i \in 1..Len(view)})
     ELSE << >>,
   stats |-> ComputeStats(final)]

\* get_table_data(...) on the two sheets the loaders read.  index is the
\* index label (the position in the main frame) of each returned row.
\* lines 631-639: what get_table_data returns, from the frame df, the rows
\* view the options are taken from and the rows final the filters left
Returns(df, view, final) ==
  [raised |-> "none",
   rows |-> OutputRows(df, final),
   index |-> IndexOf(final),
   region_options |-> region_options(view),
   schedule_options |-> schedule_options(view),
   installation_options |->
     ColumnOptions({view[i].Installation : i \in 1..Len(view)}),
   final_status_options |->
     IF df.hasFinal THEN ColumnOptions({view[i].Final : i \in 1..Len(view)})
     ELSE << >>,
   validated_options |->
     IF df.hasValidated
       THEN ColumnOptions({view[i].Validated : i \in 1..Len(view)})
     ELSE << >>,
   stats |-> IF final = << >> THEN ZeroStats ELSE ComputeStats(final)]

\* AfterFilters with the option lists taken from the filtered rows
AfterFiltersNarrow(df, view, filtered, p) ==
  IF SearchRaises(p) THEN Raised("re.error")
  ELSE IF filtered = << >> THEN Returns(df, filtered, << >>)
  ELSE IF ~df.hasApproval THEN Raised("KeyError")
  ELSE Returns(df, filtered, SelectRows(filtered, TileMask(filtered, p)))

\* lines 439-516: an empty result has zero statistics; otherwise the series
\* are read (the approval column must be there) and the tile filter applied
AfterFilters(df, view, filtered, p) ==
  IF SearchRaises(p) THEN Raised("re.error")
  ELSE IF filtered = << >> THEN Returns(df, view, << >>)
  ELSE IF ~df.hasApproval THEN Raised("KeyError")
  ELSE Returns(df, view, SelectRows(filtered, TileMask(filtered, p)))

\* lines 292-437: the view, then the optional filters
AfterView(df, view, p) == AfterFilters(df, view, FilterRows(df, view, p), p)

\* lines 187-290: the merged frame, then the view
AfterMerge(df, p) == AfterView(df, ViewRows(df, p), p)

\* lines 171-185: an empty main frame returns an empty result
AfterLoad(df_main, starSheet_, p) ==
  IF df_main.rows = << >> THEN Raised("none")
  ELSE AfterMerge(MergedFrame(df_main, load_starlink_df(starSheet_)), p)

get_table_data(mainSheet_, starSheet_, p) ==
  AfterLoad(load_main_df(mainSheet_), starSheet_, p)

\* the most rows of a main sheet and of a Starlink sheet
MaxMain == 2
MaxStar == 2

\* the sequences of at most n elements of S
SeqsUpTo(S, n) == UNION {[1..k -> S] : k \in 0..n}

MainCols == MainRequired \cup MainOptional

\* The sheets: every main sheet of at most MaxMain rows beside one Starlink
\* sheet, every Starlink sheet of at most MaxStar rows beside one main
\* sheet, and the sheets that lack columns.
Sheets ==
  {<< [cols |-> MainCols, rows |-> m],
      [cols |-> StarRequired, rows |-> << S1, S4, S5 >>] >> :
     m \in SeqsUpTo(MainPool, MaxMain)}
  \cup
  {<< [cols |-> MainCols, rows |-> << M1, M3, M4 >>],
      [cols |-> StarRequired, rows |-> s] >> :
     s \in SeqsUpTo(StarPool, MaxStar)}
  \cup
  {<< [cols |-> MainRequired, rows |-> << M3, M1 >>],
      [cols |-> StarRequired, rows |-> << S1, S4 >>] >>,
   << [cols |-> MainCols \ {"Province"}, rows |-> << M3, M1 >>],
      [cols |-> StarRequired, rows |-> << S1, S4 >>] >>,
   << [cols |-> MainCols, rows |-> << M7, M6 >>],
      [cols |-> StarRequired, rows |-> << S1, S4, S5 >>] >>,
   << [cols |-> MainCols \ {"SCHEDULE_END_COL"}, rows |-> << M3, M1 >>],
      [cols |-> StarRequired, rows |-> << S1, S4 >>] >>,
   << [cols |-> (MainCols \ {"Region"}) \cup {""}, rows |-> << M3, M1 >>],
      [cols |-> StarRequired, rows |-> << S1, S4 >>] >>,
   << [cols |-> MainCols, rows |-> << M3, M1 >>],
      [cols |-> StarRequired \ {APPROVAL_COL}, rows |-> << S1, S4 >>] >>}

(***************************************************************************)
(* The calls of get_table_data.                                            *)
(***************************************************************************)

\* get_table_data(include_unscheduled=full), every other argument None
NoFilter(full) ==
  [selected_region |-> NONE, selected_schedule |-> NONE, schedule_is_list |-> FALSE,
   selected_installation |-> NONE, selected_tile |-> NONE, selected_lot |-> NONE,
   selected_final |-> NONE, selected_validated |-> NONE,
   include_unscheduled |-> full, selected_search |-> NONE]

CAR == << "C", "A", "R" >>

\* the calls of the model: one criterion, or a few together
Requests ==
  UNION {
    LET b == NoFilter(full) IN
    {b}
    \cup {[b EXCEPT !.selected_tile = t] : t \in TileNames \cup {<< "b", "o", "g", "u", "s" >>}}
    \cup {[b EXCEPT !.selected_lot = l] : l \in {Lot1, Lot2, Lot3, << "L", "o", "t", " ", "#", "9" >>}}
    \cup {[b EXCEPT !.selected_region = CAR],
          [b EXCEPT !.selected_schedule = << "F", "e", "b", ".", " ", "0", "4", ",", " ", "2", "0", "2", "6", " ", "-", " ", "-" >>],
          [b EXCEPT !.selected_schedule =
                      << << "F", "e", "b", ".", " ", "0", "4", ",", " ", "2", "0", "2", "6", " ", "-", " ", "-" >>,
                         << "F", "e", "b", ".", " ", "0", "3", ",", " ", "2", "0", "2", "6", " ", "-", " ", "F", "e", "b", ".", " ", "0", "5", ",", " ", "2", "0", "2", "6" >> >>,
                    !.schedule_is_list = TRUE],
          [b EXCEPT !.selected_installation = BLANK],
          [b EXCEPT !.selected_installation = << "S", "2", " ", "-", " ", "F", "a", "i", "l", "e", "d" >>],
          [b EXCEPT !.selected_final = << "D", "o", "n", "e" >>],
          [b EXCEPT !.selected_validated = << "Y", "e", "s" >>],
          [b EXCEPT !.selected_search = << " ", "a", "b", " " >>],
          [b EXCEPT !.selected_search = << " ", " " >>],
          [b EXCEPT !.selected_search = << "(", "s", "u" >>],
          [b EXCEPT !.selected_region = CAR,
                    !.selected_tile = << "a", "p", "p", "r", "o", "v", "a", "l", "_", "a", "c", "c", "e", "p", "t", "e", "d" >>],
          [b EXCEPT !.selected_lot = Lot1,
                    !.selected_search = << "a", ".", "r" >>],
          [b EXCEPT !.selected_region = CAR,
                    !.selected_installation = BLANK,
                    !.selected_tile = << "s", "t", "a", "r", "_", "n", "o", "t", "_", "a", "c", "t", "i", "v", "a", "t", "e", "d" >>],
          [b EXCEPT !.selected_final = << "D", "o", "n", "e" >>,
                    !.selected_search = << "a", "c", "c", "e", "p", "t" >>,
                    !.selected_tile = << "a", "p", "p", "r", "o", "v", "a", "l", "_", "d", "e", "c", "l", "i", "n", "e" >>]}
    : full \in BOOLEAN}

(***************************************************************************)
(* The program: the two sheets, and the last call of get_table_data with   *)
(* what it returned.                                                        *)
(***************************************************************************)
\* trip is one schedule text on its way through _parse_schedule, the display
\* format and _parse_schedule again
\* calls holds, for each of two concurrent callers, the position and the
\* local variables of its invocation of get_table_data
\* page is the request a handler index() is serving, and what it answered
VARIABLES mainSheet, starSheet, request, result, pc, trip, calls, page

vars == << mainSheet, starSheet, request, result, pc, trip, calls, page >>

\* no schedule text is on its way
NoTrip ==
  [at |-> "none", text |-> << >>, explicit |-> FALSE, date |-> NaT,
   shown |-> << >>, again |-> NaT]

\* no handler is serving a request
NoPage ==
  [handler |-> "none", at |-> "idle", query |-> << >>, raised |-> "none",
   response |-> "none", names |-> << >>, returned |-> << >>,
   index |-> << >>, pills |-> << >>]

Init ==
  /\ \E sh \in Sheets : mainSheet = sh[1] /\ starSheet = sh[2]
  /\ request = NoFilter(FALSE)
  /\ result = Raised("none")
  /\ pc = "idle"
  /\ trip = NoTrip
  /\ calls = << >>
  /\ page = NoPage

\* one call of get_table_data: it reads both sheets anew and keeps nothing
GetTableData(p) ==
  /\ pc = "idle"
  /\ request' = p
  /\ result' = get_table_data(mainSheet, starSheet, p)
  /\ pc' = "done"
  /\ UNCHANGED << mainSheet, starSheet, trip, calls, page >>

\* the caller has the returned tuple; nothing of the call is kept
Return ==
  /\ pc = "done"
  /\ pc' = "idle"
  /\ request' = NoFilter(FALSE)
  /\ result' = Raised("none")
  /\ UNCHANGED << mainSheet, starSheet, trip, calls, page >>

Next == (\E p \in Requests : GetTableData(p)) \/ Return

Spec == Init /\ [][Next]_vars

(***************************************************************************)
(* Properties.                                                             *)
(***************************************************************************)

\* the call has returned (or raised)
Done == pc = "done"

\* the call returned, and did not raise
Returned == pc = "done" /\ result.raised = "none"

\* the main sheet has its required columns and a row: load_main_df is not empty
MainLoads ==
  (MainRequired \subseteq MainHeaders(mainSheet)) /\ mainSheet.rows # << >>

\* the Starlink sheet has its required columns
StarLoads == StarRequired \subseteq starSheet.cols

\* the main-sheet row a returned row comes from
MainRowOf(k) == mainSheet.rows[result.index[k]]

\* C1: with include_unscheduled and no other filter, get_table_data returns
\* exactly one row per main row, whatever the Starlink sheet (duplicate
\* keys, empty keys, keys not in the main sheet), and each returned row
\* carries its main row's Region, Province, BEIS School ID, Installation
\* Status and Blocker trimmed, and its Start Time and End Time.
C1_JoinCompleteness ==
  (Done /\ MainLoads /\ StarLoads /\ request = NoFilter(TRUE)) =>
    /\ result.raised = "none"
    /\ Len(result.rows) = Len(mainSheet.rows)
    /\ Range(result.index) = 1..Len(mainSheet.rows)
    /\ \A k \in 1..Len(result.rows) :
         LET r == result.rows[k]
             m == MainRowOf(k)
         IN /\ r.Region = Strip(m.Region)
            /\ r.Province = Strip(m.Province)
            /\ r.BEIS_School_ID = Strip(m.BEIS)
            /\ r.Start_Time = m.Start
            /\ r.End_Time = m.End
            /\ r.Installation_Status = Strip(m.Outcome)
            /\ r.Blocker = Strip(m.Blocker)

\* C2: when the Starlink sheet is empty or lacks a required column,
\* get_table_data raises nothing for a non-empty main table: every returned
\* row has an empty Starlink Status and the Approval "Pending", and the
\* statistics count every row as not activated and approval-pending.
C2_EmptyStarNoError ==
  (Done /\ MainLoads /\ (starSheet.rows = << >> \/ ~StarLoads)) =>
    /\ result.raised = "none"
    /\ \A k \in 1..Len(result.rows) :
         /\ result.rows[k].Starlink_Status = << >>
         /\ result.rows[k].Approval = PENDING
    /\ result.rows # << >> =>
         /\ result.stats.star_not_activated = Len(result.rows)
         /\ result.stats.approval_pending = Len(result.rows)

\* C3: whenever get_table_data returns a non-empty row list, star_activated
\* + star_not_activated equals the number of returned rows, and so does
\* approval_accepted + approval_decline + approval_pending.
C3_AggregatePartition ==
  (Returned /\ result.rows # << >>) =>
    /\ result.stats.star_activated + result.stats.star_not_activated
         = Len(result.rows)
    /\ result.stats.approval_accepted + result.stats.approval_decline
         + result.stats.approval_pending = Len(result.rows)

\* C3's case: a filtered call returned rows of which some are activated and
\* some not, some accepted and some declined
C3_Witness ==
  /\ Returned
  /\ request.selected_tile # NONE
  /\ Len(result.rows) >= 2
  /\ result.stats.star_activated >= 1
  /\ result.stats.star_not_activated >= 1
  /\ result.stats.approval_accepted >= 1
  /\ result.stats.approval_decline >= 1

StatNames ==
  {"star_activated", "star_not_activated", "approval_accepted",
   "approval_pending", "approval_decline", "calendar_sent",
   "calendar_not_sent", "s1_success", "scheduled", "unscheduled"}

\* C4: every count of the statistics get_table_data returns is a
\* non-negative integer, for every input and every filter combination.
C4_CountsNonNegative ==
  Returned => \A n \in StatNames : result.stats[n] \in Nat

\* the approval category of a text, first match first: "accept", else
\* "declin", else pending
ApprovalCategory(text) ==
  IF Contains(Lower(text), ACCEPT) THEN "accepted"
  ELSE IF Contains(Lower(text), DECLIN) THEN "declined"
  ELSE "pending"

\* C5: approval classification is total with first-match precedence: the
\* three approval counts are the numbers of returned rows of each category,
\* and a row whose approval text holds both "accept" and "declin" is
\* accepted only: the approval_decline tile does not select it.
C5_ApprovalFirstMatch ==
  (Returned /\ result.rows # << >>) =>
    LET n(c) == Cardinality({k \in 1..Len(result.rows) :
                               ApprovalCategory(result.rows[k].Approval) = c})
        tile == Strip(OrEmpty(request.selected_tile))
    IN /\ result.stats.approval_accepted = n("accepted")
       /\ result.stats.approval_decline = n("declined")
       /\ result.stats.approval_pending = n("pending")
       /\ tile = << "a", "p", "p", "r", "o", "v", "a", "l", "_", "a", "c", "c", "e", "p", "t", "e", "d" >>
            => n("accepted") = Len(result.rows)
       /\ tile = << "a", "p", "p", "r", "o", "v", "a", "l", "_", "d", "e", "c", "l", "i", "n", "e" >>
            => n("declined") = Len(result.rows)
       /\ tile = << "a", "p", "p", "r", "o", "v", "a", "l", "_", "p", "e", "n", "d", "i", "n", "g" >>
            => n("pending") = Len(result.rows)

\* C6: a row scheduled "02/04/2026" with no end date, no activation text and
\* no approval text is returned with the schedule display "Feb. 04, 2026";
\* a row with a start date one of the formats parses and no end date is
\* displayed as that date alone, "Mon. DD, YYYY".
C6_ScheduleDisplay ==
  Returned =>
    \A k \in 1..Len(result.rows) :
      LET m == MainRowOf(k)
          start == Strip(m.Sched)
      IN /\ (/\ start = << "0", "2", "/", "0", "4", "/", "2", "0", "2", "6" >>
             /\ Strip(m.SchedEnd) = << >>
             /\ result.rows[k].Starlink_Status = << >>
             /\ result.rows[k].Approval = PENDING)
              => result.rows[k].Schedule = << "F", "e", "b", ".", " ", "0", "4", ",", " ", "2", "0", "2", "6" >>
         /\ (/\ \E i \in 1..Len(fmts) : Strptime(start, fmts[i]) # NaT
             /\ Strip(m.SchedEnd) = << >>)
              => \E ts \in {Strptime(start, fmts[i]) : i \in 1..Len(fmts)} \ {NaT} :
                   result.rows[k].Schedule = Strftime(ts)

\* the six sort keys of a main-sheet row: the parsed schedule date, the
\* parsed start and end times, Region, Province and BEIS School ID
KeyOf(m) ==
  << _parse_schedule(Strip(m.Sched)), ParseTime(m.Start), ParseTime(m.End),
     Strip(m.Region), Strip(m.Province), Strip(m.BEIS) >>

\* x sorts before y at key position i: a present date or time before a later
\* one and before an absent one, a text before a greater one
KeyBefore(x, y, i) ==
  IF i <= 3
    THEN x[i] # NaT /\ (y[i] = NaT \/ x[i][1] < y[i][1]
                        \/ (x[i][1] = y[i][1] /\ x[i][2] < y[i][2]))
    ELSE StrLess(x[i], y[i])

\* x is not after y in the lexicographic order of the six keys
KeyLeq(x, y) ==
  x = y \/ \E i \in 1..6 : KeyBefore(x, y, i) /\ \A j \in 1..(i - 1) : x[j] = y[j]

\* C7: the returned rows are in ascending lexicographic order of (parsed
\* schedule date, parsed start time, parsed end time, Region, Province, BEIS
\* School ID), an absent date or time after every present one.
C7_SortOrder ==
  Returned =>
    \A k \in 1..(Len(result.rows) - 1) :
      KeyLeq(KeyOf(MainRowOf(k)), KeyOf(MainRowOf(k + 1)))

\* C7's case: the sort moved a row with a date in front of an earlier row
\* of the sheet that has none
C7_Witness ==
  /\ Returned
  /\ \E k \in 1..(Len(result.rows) - 1) :
       /\ result.index[k] > result.index[k + 1]
       /\ KeyOf(MainRowOf(k))[1] # NaT
       /\ KeyOf(MainRowOf(k + 1))[1] = NaT

\* C8: two returned rows whose six sort keys are all identical appear in the
\* order of their rows in the main sheet, under every filter combination.
C8_SortStability ==
  Returned =>
    \A i, j \in 1..Len(result.rows) :
      (i < j /\ KeyOf(MainRowOf(i)) = KeyOf(MainRowOf(j)))
        => result.index[i] < result.index[j]

\* C8's case: two different rows with the same six keys are returned
C8_Witness ==
  /\ Returned
  /\ \E i, j \in 1..Len(result.rows) :
       /\ i < j
       /\ KeyOf(MainRowOf(i)) = KeyOf(MainRowOf(j))
       /\ result.rows[i] # result.rows[j]

\* the filter criteria of a call
CriteriaFields ==
  {"selected_region", "selected_schedule", "selected_installation",
   "selected_tile", "selected_lot", "selected_final", "selected_validated",
   "selected_search"}

\* the criteria a call gives
Given(p) == {f \in CriteriaFields : p[f] # NONE}

\* the call p without the criteria D
Without(p, D) ==
  [f \in DOMAIN p |->
     IF f \in D THEN NONE
     ELSE IF f = "schedule_is_list" /\ "selected_schedule" \in D THEN FALSE
     ELSE p[f]]

\* C9: for the same sheets and the same include_unscheduled, a call with the
\* criteria G returns a subset of the rows a call with fewer criteria F
\* returns.
C9_FilterConjunctivity ==
  Returned =>
    \A D \in SUBSET Given(request) :
      LET fewer == get_table_data(mainSheet, starSheet, Without(request, D))
      IN fewer.raised = "none" => Range(result.index) \subseteq Range(fewer.index)

\* C9's case: a call with three criteria returns rows, and fewer rows than
\* the call with none of them
C9_Witness ==
  /\ Returned
  /\ Cardinality(Given(request)) = 3
  /\ result.rows # << >>
  /\ Len(result.rows) <
       Len(get_table_data(mainSheet, starSheet,
                          NoFilter(request.include_unscheduled)).rows)

\* the positions of the Starlink sheet's rows with the key of main row m
StarHits(m) ==
  {j \in 1..Len(starSheet.rows) :
     /\ Strip(m.BEIS) # << >>
     /\ Strip(starSheet.rows[j].BEIS) = Strip(m.BEIS)}

\* C10: a main row whose trimmed non-empty key several Starlink rows have
\* is returned with the activation and approval values of the last of them,
\* blank or not; a Starlink row with an empty key is matched to no main row.
C10_LastOccurrenceWins ==
  (Returned /\ StarLoads) =>
    \A k \in 1..Len(result.rows) :
      LET hits == StarHits(MainRowOf(k))
          last == starSheet.rows[CHOOSE j \in hits : \A i \in hits : i <= j]
      IN IF hits = {}
           THEN /\ result.rows[k].Starlink_Status = << >>
                /\ result.rows[k].Approval = PENDING
           ELSE /\ result.rows[k].Starlink_Status = Strip(last.Status)
                /\ result.rows[k].Approval =
                     (IF Strip(last.Approval) = << >> THEN PENDING
                      ELSE Strip(last.Approval))

\* C10's case: a returned row's key has two Starlink rows, the first with
\* values and the last blank
C10_Witness ==
  /\ Returned
  /\ StarLoads
  /\ \E k \in 1..Len(result.rows) :
       LET hits == StarHits(MainRowOf(k)) IN
       /\ Cardinality(hits) >= 2
       /\ \E i, j \in hits :
            /\ i < j
            /\ \A h \in hits : h <= j
            /\ Strip(starSheet.rows[i].Status) # << >>
            /\ Strip(starSheet.rows[j].Status) = << >>
            /\ Strip(starSheet.rows[j].Approval) = << >>

\* the columns C11 names
C11_Required ==
  {"Region", "Province", "BEIS School ID", "SCHEDULE_COL", "Start Time",
   "End Time", "OUTCOME_COL", "BLOCKER_COL", "Status of Calendar"}

\* C11: when the loaded main table is empty or lacks one of Region,
\* Province, BEIS School ID, schedule start, Start Time, End Time, outcome,
\* blocker, Status of Calendar, get_table_data raises nothing and returns
\* no row, five empty option lists, active = false and every count 0.
C11_MissingColumn ==
  (Done /\ (mainSheet.rows = << >>
            \/ ~(C11_Required \subseteq MainHeaders(mainSheet)))) =>
    /\ result.raised = "none"
    /\ result.rows = << >>
    /\ result.region_options = << >>
    /\ result.schedule_options = << >>
    /\ result.installation_options = << >>
    /\ result.final_status_options = << >>
    /\ result.validated_options = << >>
    /\ result.stats.active = FALSE
    /\ \A n \in StatNames : result.stats[n] = 0

\* C11's case: a call with a filter on a main sheet that has rows and lacks
\* a required column
C11_Witness ==
  /\ Done
  /\ mainSheet.rows # << >>
  /\ ~(C11_Required \subseteq MainHeaders(mainSheet))
  /\ request.selected_tile # NONE
  /\ result.raised = "none"
  /\ result.rows = << >>

\* what a call returns, without the index labels of the rows
Outputs(r) == [r EXCEPT !.index = << >>]

\* the main sheet without the rows whose trimmed schedule start is empty
WithoutUnscheduled(sheet) ==
  [sheet EXCEPT !.rows =
     SelectRows(sheet.rows,
                {i \in 1..Len(sheet.rows) : Strip(sheet.rows[i].Sched) # << >>})]

\* C12: with include_unscheduled = false no returned row has an empty
\* trimmed schedule start, no statistic counts one, and the rows, option
\* lists and statistics the call returns are those the same call returns
\* on the main sheet with such rows deleted beforehand.
C12_UnscheduledExcluded ==
  (Returned /\ ~request.include_unscheduled) =>
    /\ \A k \in 1..Len(result.rows) : Strip(MainRowOf(k).Sched) # << >>
    /\ result.stats.unscheduled = 0
    /\ Outputs(result)
         = Outputs(get_table_data(WithoutUnscheduled(mainSheet), starSheet, request))

\* C12's case: the main sheet has a row with a blank schedule and a
\* scheduled one, and the default view returns rows
C12_Witness ==
  /\ Returned
  /\ ~request.include_unscheduled
  /\ \E i \in 1..Len(mainSheet.rows) : Strip(mainSheet.rows[i].Sched) = << >>
  /\ result.rows # << >>
  /\ result.region_options # << >>

\* the five option lists of a result
OptionLists(r) ==
  << r.region_options, r.schedule_options, r.installation_options,
     r.final_status_options, r.validated_options >>

\* the call with the sheets' view only: include_unscheduled and lot
ViewOnly(p) ==
  [NoFilter(p.include_unscheduled) EXCEPT !.selected_lot = p.selected_lot]

\* C13: for the same sheets, include_unscheduled and lot, the five option
\* lists are the same for every choice of region, schedule, installation,
\* final, validated, search and tile: they are those of the call with none.
C13_OptionsIndependent ==
  Returned =>
    LET plain == get_table_data(mainSheet, starSheet, ViewOnly(request))
    IN plain.raised = "none" => OptionLists(result) = OptionLists(plain)

\* C13's case: a call with a region or a tile returns fewer rows than the
\* view has, and an option list names a region none of them has
C13_Witness ==
  /\ Returned
  /\ request # ViewOnly(request)
  /\ result.rows # << >>
  /\ \E o \in Range(result.region_options) :
       \A k \in 1..Len(result.rows) : result.rows[k].Region # o

\* a list of texts is in strictly ascending order
Ascending(list) ==
  \A i \in 1..(Len(list) - 1) : StrLess(list[i], list[i + 1])

\* a list of texts has no empty text and no text twice
Distinct(list) ==
  /\ \A i \in 1..Len(list) : list[i] # << >>
  /\ Cardinality(Range(list)) = Len(list)

\* C14: each of the five option lists holds only non-empty strings and none
\* twice; the region, installation, final-status and validated lists are in
\* ascending string order, and the schedule list is in the order of the
\* parsed start dates of the rows its entries display.
C14_OptionListsWellFormed ==
  Returned =>
    /\ \A l \in Range(OptionLists(result)) : Distinct(l)
    /\ Ascending(result.region_options)
    /\ Ascending(result.installation_options)
    /\ Ascending(result.final_status_options)
    /\ Ascending(result.validated_options)
    /\ LET plain == get_table_data(mainSheet, starSheet, ViewOnly(request))
           date(k) == KeyOf(mainSheet.rows[plain.index[k]])
           opts == result.schedule_options
       IN \A i, j \in 1..Len(opts) : \A a, b \in 1..Len(plain.rows) :
            (/\ i < j
             /\ plain.rows[a].Schedule = opts[i]
             /\ plain.rows[b].Schedule = opts[j])
              => (date(a)[1] = date(b)[1] \/ KeyBefore(date(a), date(b), 1))

\* the raw approval text joined to main row m: that of the last Starlink
\* row with its key, empty where there is none
ApprovalRaw(m) ==
  IF ~StarLoads \/ StarHits(m) = {} THEN << >>
  ELSE Strip(starSheet.rows[CHOOSE j \in StarHits(m) :
                              \A i \in StarHits(m) : i <= j].Approval)

\* a cell of returned row r, from main row m, contains the needle as a
\* literal substring, ignoring case
LiteralHit(r, m, needle) ==
  \E c \in {r.Region, r.Province, r.BEIS_School_ID, r.Schedule,
            r.Installation_Status, r.Starlink_Status, ApprovalRaw(m),
            r.Final_Status, r.Validated, r.Blocker} :
    Contains(Lower(c), Lower(needle))

\* C15: with a non-blank needle the search never raises, and a row is kept
\* if and only if one of Region, Province, BEIS School ID, schedule display,
\* Installation Status, Starlink Status, approval raw text, Final Status,
\* Validated?, Blocker contains the trimmed needle as a literal substring,
\* ignoring case: the rows are those of the call without the search that
\* have such a cell.
C15_SearchLiteral ==
  (Done /\ request.selected_search # NONE
        /\ Strip(request.selected_search) # << >>) =>
    /\ result.raised # "re.error"
    /\ LET base == get_table_data(mainSheet, starSheet,
                                  [request EXCEPT !.selected_search = NONE])
       IN (result.raised = "none" /\ base.raised = "none") =>
            Range(result.index) =
              {base.index[k] : k \in
                 {k \in 1..Len(base.rows) :
                    LiteralHit(base.rows[k], mainSheet.rows[base.index[k]],
                               Strip(request.selected_search))}}

\* the category of a tile, read off a returned row r and its main row m
InTile(tile, r, m) ==
  CASE tile = << "s", "t", "a", "r", "_", "a", "c", "t", "i", "v", "a", "t", "e", "d" >> -> Lower(Strip(r.Starlink_Status)) = << "a", "c", "t", "i", "v", "a", "t", "e", "d" >>
    [] tile = << "s", "t", "a", "r", "_", "n", "o", "t", "_", "a", "c", "t", "i", "v", "a", "t", "e", "d" >> -> Lower(Strip(r.Starlink_Status)) # << "a", "c", "t", "i", "v", "a", "t", "e", "d" >>
    [] tile = << "a", "p", "p", "r", "o", "v", "a", "l", "_", "a", "c", "c", "e", "p", "t", "e", "d" >> -> ApprovalCategory(r.Approval) = "accepted"
    [] tile = << "a", "p", "p", "r", "o", "v", "a", "l", "_", "p", "e", "n", "d", "i", "n", "g" >> -> ApprovalCategory(r.Approval) = "pending"
    [] tile = << "a", "p", "p", "r", "o", "v", "a", "l", "_", "d", "e", "c", "l", "i", "n", "e" >> -> ApprovalCategory(r.Approval) = "declined"
    [] tile = << "c", "a", "l", "e", "n", "d", "a", "r", "_", "s", "e", "n", "t" >> -> r.Calendar_Status = << "S", "e", "n", "t" >>
    [] tile = << "c", "a", "l", "e", "n", "d", "a", "r", "_", "n", "o", "t", "_", "s", "e", "n", "t" >> -> r.Calendar_Status = << "I", "n", "v", "i", "t", "e", " ", "N", "o", "t", " ", "S", "e", "n", "t" >>
    [] tile = << "s", "1", "_", "s", "u", "c", "c", "e", "s", "s" >> ->
         Lower(Strip(r.Installation_Status)) = Lower(<< "S", "1", " ", "-", " ", "I", "n", "s", "t", "a", "l", "l", "e", "d", " ", "(", "S", "u", "c", "c", "e", "s", "s", ")" >>)
    [] tile = << "u", "n", "s", "c", "h", "e", "d", "u", "l", "e", "d" >> -> Strip(m.Sched) = << >>
    [] OTHER -> TRUE

\* the count of the statistics that has the tile's name
TileStat(tile, stats) ==
  CASE tile = << "s", "t", "a", "r", "_", "a", "c", "t", "i", "v", "a", "t", "e", "d" >> -> stats.star_activated
    [] tile = << "s", "t", "a", "r", "_", "n", "o", "t", "_", "a", "c", "t", "i", "v", "a", "t", "e", "d" >> -> stats.star_not_activated
    [] tile = << "a", "p", "p", "r", "o", "v", "a", "l", "_", "a", "c", "c", "e", "p", "t", "e", "d" >> -> stats.approval_accepted
    [] tile = << "a", "p", "p", "r", "o", "v", "a", "l", "_", "p", "e", "n", "d", "i", "n", "g" >> -> stats.approval_pending
    [] tile = << "a", "p", "p", "r", "o", "v", "a", "l", "_", "d", "e", "c", "l", "i", "n", "e" >> -> stats.approval_decline
    [] tile = << "c", "a", "l", "e", "n", "d", "a", "r", "_", "s", "e", "n", "t" >> -> stats.calendar_sent
    [] tile = << "c", "a", "l", "e", "n", "d", "a", "r", "_", "n", "o", "t", "_", "s", "e", "n", "t" >> -> stats.calendar_not_sent
    [] tile = << "s", "1", "_", "s", "u", "c", "c", "e", "s", "s" >> -> stats.s1_success
    [] tile = << "u", "n", "s", "c", "h", "e", "d", "u", "l", "e", "d" >> -> stats.unscheduled
    [] OTHER -> 0

\* C16: with one of the nine tile names every returned row is of the tile's
\* category, every row of that category the other filters leave is
\* returned, and the statistics are over the returned rows: the tile's own
\* count is their number.
C16_TileDrillDown ==
  (Returned /\ request.selected_tile \in TileNames) =>
    /\ \A k \in 1..Len(result.rows) :
         InTile(request.selected_tile, result.rows[k], MainRowOf(k))
    /\ LET base == get_table_data(mainSheet, starSheet,
                                  [request EXCEPT !.selected_tile = NONE])
       IN base.raised = "none" =>
            Range(result.index) =
              {base.index[k] : k \in
                 {k \in 1..Len(base.rows) :
                    InTile(request.selected_tile, base.rows[k],
                           mainSheet.rows[base.index[k]])}}
    /\ TileStat(request.selected_tile, result.stats) = Len(result.rows)
    /\ result.stats.scheduled + result.stats.unscheduled = Len(result.rows)

\* the lot of the call is given and is none of the three lot names
UnknownLot ==
  /\ request.selected_lot # NONE
  /\ Strip(request.selected_lot) \notin LotNames

\* the tile of the call is given and is none of the nine tile names
UnknownTile ==
  /\ request.selected_tile # NONE
  /\ Strip(request.selected_tile) \notin TileNames

\* C17: a selected_lot that is none of the three lot names, or a
\* selected_tile that is none of the nine tile names, is a no-op: the call
\* has the outcome of the same call without that parameter, the same rows,
\* option lists and statistics, and it raises nothing that call does not.
C17_UnknownValuesNoOp ==
  /\ (Done /\ UnknownLot) =>
       result = get_table_data(mainSheet, starSheet,
                               [request EXCEPT !.selected_lot = NONE])
  /\ (Done /\ UnknownTile) =>
       result = get_table_data(mainSheet, starSheet,
                               [request EXCEPT !.selected_tile = NONE])

\* C17's case: a call with an unknown lot, and one with an unknown tile,
\* returned rows
C17_Witness == Returned /\ UnknownLot /\ Len(result.rows) >= 2

C17_WitnessTile == Returned /\ UnknownTile /\ Len(result.rows) >= 2

\* C18: stats.active is true exactly when the returned row list is not
\* empty, and whenever the returned row list is empty (empty input, filters
\* that exclude everything, or a tile that excludes everything) every count
\* of the statistics is 0.
C18_ActiveIffRows ==
  Returned =>
    /\ result.stats.active <=> (result.rows # << >>)
    /\ result.rows = << >> => \A n \in StatNames : result.stats[n] = 0

\* C18's case: a tile excluded every row of a call that returns rows
\* without the tile
C18_Witness ==
  /\ Returned
  /\ request.selected_tile # NONE
  /\ result.rows = << >>
  /\ get_table_data(mainSheet, starSheet,
                    [request EXCEPT !.selected_tile = NONE]).rows # << >>

\* C18's other cases: the main sheet has no row; the filters left no row
C18_WitnessEmptyInput == Returned /\ mainSheet.rows = << >>

C18_WitnessFiltered ==
  /\ Returned
  /\ request.selected_tile = NONE
  /\ result.rows = << >>
  /\ get_table_data(mainSheet, starSheet,
                    NoFilter(request.include_unscheduled)).rows # << >>

\* the Calendar Status of a raw calendar text, as C19 states it
CalendarClass(raw) ==
  IF Strip(raw) = << >> THEN << >>
  ELSE IF Strip(raw) = << "I", "n", "v", "i", "t", "e", " ", "S", "e", "n", "t" >> THEN << "S", "e", "n", "t" >>
  ELSE << "I", "n", "v", "i", "t", "e", " ", "N", "o", "t", " ", "S", "e", "n", "t" >>

\* C19: calendar classification is by exact match: a returned row's
\* Calendar Status is empty when its trimmed raw calendar text is empty,
\* "Sent" only when that text is exactly "Invite Sent", and "Invite Not
\* Sent" for every other text ("Invite Sent via email", "invite sent",
\* "Sent"), and calendar_sent and calendar_not_sent count those rows;
\* approval is by substring: a row with approval "Accepted via email" is
\* counted in approval_accepted.
C19_CalendarExactMatch ==
  (Returned /\ result.rows # << >>) =>
    LET K == 1..Len(result.rows) IN
    /\ \A k \in K :
         result.rows[k].Calendar_Status = CalendarClass(MainRowOf(k).Calendar)
    /\ result.stats.calendar_sent =
         Cardinality({k \in K : Strip(MainRowOf(k).Calendar) = << "I", "n", "v", "i", "t", "e", " ", "S", "e", "n", "t" >>})
    /\ result.stats.calendar_not_sent =
         Cardinality({k \in K :
            Strip(MainRowOf(k).Calendar) \notin {<< >>, << "I", "n", "v", "i", "t", "e", " ", "S", "e", "n", "t" >>}})
    /\ result.stats.approval_accepted =
         Cardinality({k \in K :
            Contains(Lower(ApprovalRaw(MainRowOf(k))), ACCEPT)})

\* C19's case: rows with calendar texts "Invite Sent via email" and "invite
\* sent" are returned as "Invite Not Sent" beside a row with approval
\* "Accepted via email" counted as accepted
C19_Witness ==
  /\ Returned
  /\ \E k \in 1..Len(result.rows) :
       /\ MainRowOf(k).Calendar = << "I", "n", "v", "i", "t", "e", " ", "S", "e", "n", "t", " ", "v", "i", "a", " ", "e", "m", "a", "i", "l" >>
       /\ result.rows[k].Calendar_Status = << "I", "n", "v", "i", "t", "e", " ", "N", "o", "t", " ", "S", "e", "n", "t" >>
  /\ \E k \in 1..Len(result.rows) :
       /\ MainRowOf(k).Calendar = << "i", "n", "v", "i", "t", "e", " ", "s", "e", "n", "t" >>
       /\ result.rows[k].Calendar_Status = << "I", "n", "v", "i", "t", "e", " ", "N", "o", "t", " ", "S", "e", "n", "t" >>
  /\ \E k \in 1..Len(result.rows) :
       ApprovalRaw(MainRowOf(k)) = << "A", "c", "c", "e", "p", "t", "e", "d", " ", "v", "i", "a", " ", "e", "m", "a", "i", "l" >>
  /\ result.stats.approval_accepted >= 1

\* C19's remaining texts: "Sent" alone and the empty text
C19_WitnessSent ==
  /\ Returned
  /\ \E k \in 1..Len(result.rows) :
       /\ MainRowOf(k).Calendar = << "S", "e", "n", "t" >>
       /\ result.rows[k].Calendar_Status = << "I", "n", "v", "i", "t", "e", " ", "N", "o", "t", " ", "S", "e", "n", "t" >>

C19_WitnessEmpty ==
  /\ Returned
  /\ \E k \in 1..Len(result.rows) :
       /\ Strip(MainRowOf(k).Calendar) = << >>
       /\ result.rows[k].Calendar_Status = << >>

\* the raw Starlink Status joined to main row m: that of the last Starlink
\* row with its key, empty where there is none
StatusRaw(m) ==
  IF ~StarLoads \/ StarHits(m) = {} THEN << >>
  ELSE starSheet.rows[CHOOSE j \in StarHits(m) :
                        \A i \in StarHits(m) : i <= j].Status

\* the returned rows whose Starlink Status is "activated" once trimmed and
\* lower-cased
ActivatedRows ==
  {k \in 1..Len(result.rows) :
     Lower(Strip(StatusRaw(MainRowOf(k)))) = << "a", "c", "t", "i", "v", "a", "t", "e", "d" >>}

\* C20: a returned row is counted in star_activated if and only if its
\* Starlink Status, trimmed and lower-cased, is exactly "activated"; every
\* other row (empty text, no Starlink row for its key, a text that only
\* contains "activated" such as "Not Activated") is counted in
\* star_not_activated.
C20_ActivationExactMatch ==
  (Returned /\ result.rows # << >>) =>
    /\ result.stats.star_activated = Cardinality(ActivatedRows)
    /\ result.stats.star_not_activated =
         Len(result.rows) - Cardinality(ActivatedRows)

\* C20's case: a row with "Not Activated" is counted not activated beside
\* a row with "Activated" counted activated
C20_Witness ==
  /\ Returned
  /\ \E k \in 1..Len(result.rows) :
       StatusRaw(MainRowOf(k)) = << "N", "o", "t", " ", "A", "c", "t", "i", "v", "a", "t", "e", "d" >>
  /\ \E k \in 1..Len(result.rows) :
       StatusRaw(MainRowOf(k)) = << "A", "c", "t", "i", "v", "a", "t", "e", "d" >>
  /\ result.stats.star_activated >= 1
  /\ result.stats.star_not_activated >= 1

\* C20's other cases: a row with no Starlink row for its key, and a row
\* whose Starlink row has an empty status, are counted not activated
C20_WitnessNoMatch ==
  /\ Returned /\ StarLoads
  /\ \E k \in 1..Len(result.rows) : StarHits(MainRowOf(k)) = {}
  /\ result.stats.star_not_activated >= 1

C20_WitnessEmptyText ==
  /\ Returned /\ StarLoads
  /\ \E k \in 1..Len(result.rows) :
       /\ StarHits(MainRowOf(k)) # {}
       /\ StatusRaw(MainRowOf(k)) = << >>
  /\ result.stats.star_not_activated >= 1

\* C21: every returned row's Approval is the literal "Pending" when the
\* row's raw approval text is empty, whitespace only or missing (no Starlink
\* row for its key), and the trimmed raw approval text otherwise; it is
\* never empty.
C21_ApprovalDisplay ==
  Returned =>
    \A k \in 1..Len(result.rows) :
      /\ result.rows[k].Approval =
           IF ApprovalRaw(MainRowOf(k)) = << >> THEN << "P", "e", "n", "d", "i", "n", "g" >>
           ELSE ApprovalRaw(MainRowOf(k))
      /\ result.rows[k].Approval # << >>

\* C21's case: one call returns a row whose Starlink row has a
\* whitespace-only approval, a row with no Starlink row, both "Pending",
\* and a row with an approval text
C21_Witness ==
  /\ Returned
  /\ \E k \in 1..Len(result.rows) :
       /\ StarHits(MainRowOf(k)) # {}
       /\ \E j \in StarHits(MainRowOf(k)) : starSheet.rows[j].Approval = << " " >>
       /\ result.rows[k].Approval = << "P", "e", "n", "d", "i", "n", "g" >>
  /\ \E k \in 1..Len(result.rows) :
       /\ StarHits(MainRowOf(k)) = {}
       /\ result.rows[k].Approval = << "P", "e", "n", "d", "i", "n", "g" >>
  /\ \E k \in 1..Len(result.rows) :
       result.rows[k].Approval \notin {<< >>, << "P", "e", "n", "d", "i", "n", "g" >>}

\* the lot of the call is one of the three lot names
KnownLot ==
  /\ request.selected_lot # NONE
  /\ Strip(request.selected_lot) \in LotNames

\* the index labels of the returned rows of r whose Region is in regions
RECURSIVE IndexIn(_, _, _)
IndexIn(r, regions, k) ==
  IF k > Len(r.rows) THEN << >>
  ELSE (IF r.rows[k].Region \in regions THEN << r.index[k] >> ELSE << >>)
       \o IndexIn(r, regions, k + 1)

\* C22: the three lots' region sets are pairwise disjoint, and when
\* selected_lot names a lot every returned row's Region and every entry of
\* the region option list is in the lot's set, and every row of the same
\* call without the lot whose Region is in the set is returned.
C22_LotFilter ==
  /\ \A a, b \in LotNames : a # b => lot_map(a) \cap lot_map(b) = {}
  /\ (Returned /\ KnownLot) =>
       LET regions == lot_map(Strip(request.selected_lot))
           all == get_table_data(mainSheet, starSheet,
                                 [request EXCEPT !.selected_lot = NONE])
       IN /\ \A k \in 1..Len(result.rows) : result.rows[k].Region \in regions
          /\ \A o \in Range(result.region_options) : o \in regions
          /\ all.raised = "none" => result.index = IndexIn(all, regions, 1)

\* C22's case: a call with a lot returns a row, and the same call without
\* the lot returns more rows
C22_Witness ==
  /\ Returned /\ KnownLot
  /\ result.rows # << >>
  /\ LET all == get_table_data(mainSheet, starSheet,
                               [request EXCEPT !.selected_lot = NONE])
     IN Len(all.rows) > Len(result.rows)

\* the returned rows whose trimmed schedule start text is empty
UnscheduledRows ==
  {k \in 1..Len(result.rows) : Strip(MainRowOf(k).Sched) = << >>}

\* C23: scheduled + unscheduled is the number of returned rows whenever
\* that number is not zero, unscheduled counts exactly the returned rows
\* with an empty schedule text, and unscheduled is 0 for every call with
\* include_unscheduled = false.
C23_ScheduledSplit ==
  Returned =>
    /\ result.rows # << >> =>
         result.stats.scheduled + result.stats.unscheduled = Len(result.rows)
    /\ result.stats.unscheduled = Cardinality(UnscheduledRows)
    /\ result.stats.scheduled = Len(result.rows) - Cardinality(UnscheduledRows)
    /\ ~request.include_unscheduled => result.stats.unscheduled = 0

\* C23's case: a call with include_unscheduled returns a scheduled row and
\* an unscheduled one
C23_Witness ==
  /\ Returned
  /\ request.include_unscheduled
  /\ result.stats.unscheduled >= 1
  /\ result.stats.scheduled >= 1

\* the schedule text matches none of the nine formats nor the fallback
Unparseable(val) ==
  /\ val # << >>
  /\ \A i \in 1..Len(fmts) : Strptime(val, fmts[i]) = NaT
  /\ PandasToDatetime(val) = NaT

\* the positions of the main sheet's rows with an unparseable schedule start
UnparseableRows ==
  {i \in 1..Len(mainSheet.rows) : Unparseable(Strip(mainSheet.rows[i].Sched))}

\* C24: an unparseable schedule text never raises and never drops the row:
\* with no filter, and Starlink rows to join, a main row whose non-empty
\* schedule start matches no format is returned; wherever it is returned it
\* has no sort key (no row with a date comes after it) and its schedule
\* display is its raw start text unchanged.
C24_UnparseableSchedule ==
  /\ (Done /\ MainLoads /\ load_starlink_df(starSheet) # << >>
        /\ request \in {NoFilter(TRUE), NoFilter(FALSE)}) =>
       /\ result.raised = "none"
       /\ UnparseableRows \subseteq Range(result.index)
  /\ Returned =>
       \A k \in 1..Len(result.rows) :
         result.index[k] \in UnparseableRows =>
           /\ \A j \in (k + 1)..Len(result.rows) :
                _parse_schedule(MainRowOf(j).Sched) = NaT
           /\ result.rows[k].Schedule = Strip(MainRowOf(k).Sched)

(***************************************************************************)
(* _parse_schedule and the display format on their own: a schedule text is *)
(* parsed, the date is formatted as _format_schedule formats it, and the   *)
(* display is parsed again.                                                *)
(***************************************************************************)

TripDays == {<< "0", "4" >>, << "1", "3" >>, << "2", "8" >>}
TripMonths == {2, 5, 9}
TripYears == {<< "2", "0", "2", "6" >>, << "1", "9", "9", "9" >>, << "0", "0", "2", "6" >>}
TripShortYears == {<< "2", "6" >>, << "9", "9" >>}

\* the month as two digits
MonthNum(m) == << "0", Digits[m + 1] >>

\* the schedule texts: every day, month and year in the shape of each of
\* the nine formats, an ISO date and a text that is no date
TripTexts ==
  UNION {
    {MonthAbbrOut[m] \o << " " >> \o d \o << ",", " " >> \o y,
     MonthAbbrOut[m] \o << ".", " " >> \o d \o << ",", " " >> \o y,
     MonthFull[m] \o << " " >> \o d \o << ",", " " >> \o y,
     d \o << "-" >> \o MonthAbbrOut[m] \o << "-" >> \o y,
     MonthNum(m) \o << "/" >> \o d \o << "/" >> \o y,
     d \o << "/" >> \o MonthNum(m) \o << "/" >> \o y}
    : m \in TripMonths, d \in TripDays, y \in TripYears \cup TripShortYears}
  \cup {<< "2", "0", "2", "6", "-", "0", "2", "-", "0", "3" >>, << "T", "B", "D" >>}

\* one of the nine explicit formats parses the text
ExplicitlyParsed(val) == \E i \in 1..Len(fmts) : Strptime(val, fmts[i]) # NaT

InitParse ==
  /\ mainSheet = [cols |-> MainCols, rows |-> << >>]
  /\ starSheet = [cols |-> StarRequired, rows |-> << >>]
  /\ request = NoFilter(FALSE)
  /\ result = Raised("none")
  /\ pc = "idle"
  /\ \E s \in TripTexts : trip = [NoTrip EXCEPT !.at = "text", !.text = s]
  /\ calls = << >>
  /\ page = NoPage

\* _parse_schedule(text)
ParseSchedule ==
  /\ trip.at = "text"
  /\ trip' = [trip EXCEPT !.at = "parsed",
                          !.explicit = ExplicitlyParsed(Strip(trip.text)),
                          !.date = TryFormats(Strip(trip.text), 1)]
  /\ UNCHANGED << mainSheet, starSheet, request, result, pc, calls, page >>

\* ts_start.strftime("%b. %d, %Y") of a date an explicit format gave
FormatDisplay ==
  /\ trip.at = "parsed"
  /\ trip.explicit
  /\ trip' = [trip EXCEPT !.at = "shown", !.shown = Strftime(trip.date)]
  /\ UNCHANGED << mainSheet, starSheet, request, result, pc, calls, page >>

\* _parse_schedule(display)
ParseDisplay ==
  /\ trip.at = "shown"
  /\ trip' = [trip EXCEPT !.at = "again",
                          !.again = TryFormats(Strip(trip.shown), 1)]
  /\ UNCHANGED << mainSheet, starSheet, request, result, pc, calls, page >>

NextParse == ParseSchedule \/ FormatDisplay \/ ParseDisplay

SpecParse == InitParse /\ [][NextParse]_vars

\* C25: for every schedule text that _parse_schedule parses with one of its
\* nine explicit formats to a date d, the display "%b. %d, %Y" of d, parsed
\* by _parse_schedule again, gives the same calendar date d.
C25_DisplayRoundTrip ==
  trip.at = "again" => (trip.again # NaT /\ trip.again[1] = trip.date[1])

(***************************************************************************)
(* Concurrent invocations: two callers run get_table_data step by step,    *)
(* each on its own local variables, while the sheets may be edited.        *)
(***************************************************************************)

Callers == {1, 2}

\* the two states of the sheets the editor switches between
SheetStates ==
  {<< [cols |-> MainCols, rows |-> << M1, M3 >>],
      [cols |-> StarRequired, rows |-> << S1, S4, S5 >>] >>,
   << [cols |-> MainCols, rows |-> << M5, M2 >>],
      [cols |-> StarRequired, rows |-> << S3, S2 >>] >>}

\* the calls the two callers make
CallRequests ==
  {NoFilter(FALSE),
   [NoFilter(TRUE) EXCEPT !.selected_region = CAR],
   [NoFilter(FALSE) EXCEPT !.selected_tile = << "a", "p", "p", "r", "o", "v", "a", "l", "_", "p", "e", "n", "d", "i", "n", "g" >>],
   [NoFilter(FALSE) EXCEPT !.selected_lot = Lot2]}

\* a caller that is not in get_table_data
NoCall ==
  [at |-> "idle", p |-> NoFilter(FALSE),
   mainRead |-> [cols |-> MainCols, rows |-> << >>],
   starRead |-> [cols |-> StarRequired, rows |-> << >>],
   df_main |-> [cols |-> MainRequired, rows |-> << >>],
   out |-> Raised("none")]

\* the local variables of caller c, where cs holds every caller's
LocalsAny(cs, c) == cs[1]

LocalsOf(cs, c) == cs[c]

InitCalls ==
  /\ \E sh \in SheetStates : mainSheet = sh[1] /\ starSheet = sh[2]
  /\ request = NoFilter(FALSE)
  /\ result = Raised("none")
  /\ pc = "idle"
  /\ trip = NoTrip
  /\ calls = [c \in Callers |-> NoCall]
  /\ page = NoPage

\* somebody edits the spreadsheet
EditSheets ==
  /\ \E sh \in SheetStates :
       /\ << mainSheet, starSheet >> # sh
       /\ mainSheet' = sh[1]
       /\ starSheet' = sh[2]
  /\ UNCHANGED << request, result, pc, trip, calls, page >>

\* caller c enters get_table_data(p)
Call(c, p) ==
  /\ calls[c].at = "idle"
  /\ calls' = [calls EXCEPT ![c] = [NoCall EXCEPT !.at = "load_main", !.p = p]]
  /\ UNCHANGED << mainSheet, starSheet, request, result, pc, trip, page >>

\* lines 170-185: df_main = load_main_df(), and the early return
LoadMain(c) ==
  /\ calls[c].at = "load_main"
  /\ LET df_main == load_main_df(mainSheet) IN
     calls' = [calls EXCEPT
                 ![c].mainRead = mainSheet,
                 ![c].df_main = df_main,
                 ![c].at = IF df_main.rows = << >> THEN "done" ELSE "load_star"]
  /\ UNCHANGED << mainSheet, starSheet, request, result, pc, trip, page >>

\* line 187: df_star = load_starlink_df()
LoadStar(c) ==
  /\ calls[c].at = "load_star"
  /\ calls' = [calls EXCEPT ![c].starRead = starSheet, ![c].at = "compute"]
  /\ UNCHANGED << mainSheet, starSheet, request, result, pc, trip, page >>

\* lines 189-639: the rest of the call, on the caller's own frames
Compute(c) ==
  /\ calls[c].at = "compute"
  /\ LET mine == LocalsOf(calls, c) IN
     calls' = [calls EXCEPT
                 ![c].out = AfterLoad(mine.df_main, mine.starRead, mine.p),
                 ![c].at = "done"]
  /\ UNCHANGED << mainSheet, starSheet, request, result, pc, trip, page >>

\* the caller has the returned tuple; its local variables are gone
ReturnCall(c) ==
  /\ calls[c].at = "done"
  /\ calls' = [calls EXCEPT ![c] = NoCall]
  /\ UNCHANGED << mainSheet, starSheet, request, result, pc, trip, page >>

NextCalls ==
  \/ EditSheets
  \/ \E c \in Callers :
       \/ \E p \in CallRequests : Call(c, p)
       \/ LoadMain(c)
       \/ LoadStar(c)
       \/ Compute(c)
       \/ ReturnCall(c)

SpecCalls == InitCalls /\ [][NextCalls]_vars

IsViewOnly == request = ViewOnly(request)

\* the call of the current request with one more filter returns a row
Selects(p) == get_table_data(mainSheet, starSheet, p).rows # << >>

\* C27: every offered option is selectable: for the same sheets,
\* include_unscheduled and lot, each value of the region, schedule,
\* installation, final-status and validated option lists, passed back as
\* the single filter of its kind, returns at least one row, also where the
\* Final Status or Validated? cell carries leading or trailing blanks.
C27_OptionsSelectable ==
  (Returned /\ IsViewOnly) =>
    /\ \A v \in Range(result.region_options) :
         Selects([request EXCEPT !.selected_region = v])
    /\ \A v \in Range(result.schedule_options) :
         Selects([request EXCEPT !.selected_schedule = v])
    /\ \A v \in Range(result.installation_options) :
         Selects([request EXCEPT !.selected_installation = v])
    /\ \A v \in Range(result.final_status_options) :
         Selects([request EXCEPT !.selected_final = v])
    /\ \A v \in Range(result.validated_options) :
         Selects([request EXCEPT !.selected_validated = v])

\* the tile of the call is one of the nine tile names
KnownTile ==
  /\ request.selected_tile # NONE
  /\ request.selected_tile \in TileNames

\* C28: for the same sheets and the same other filters, the number of rows
\* a call with selected_tile = X returns is the count X of the statistics
\* the same call returns without a tile, for each of the nine tile names.
C28_TileCountsMatch ==
  (Returned /\ KnownTile) =>
    LET plain == get_table_data(mainSheet, starSheet,
                                [request EXCEPT !.selected_tile = NONE])
    IN plain.raised = "none" =>
         Len(result.rows) = TileStat(request.selected_tile, plain.stats)

(***************************************************************************)
(* The request handlers: index() of api/index.py and of auto_table2.py.    *)
(***************************************************************************)

\* request.args.get(name, "").strip() or None
StripOrNone(v) == IF Strip(v) = << >> THEN NONE ELSE Strip(v)

\* [s.strip() for s in request.args.getlist("schedule") if s.strip()]
RECURSIVE raw_schedules(_)
raw_schedules(list) ==
  IF list = << >> THEN << >>
  ELSE IF Strip(Head(list)) = << >> THEN raw_schedules(Tail(list))
  ELSE << Strip(Head(list)) >> \o raw_schedules(Tail(list))

\* request.args.get("schedule", ""): the first value of the parameter
FirstArg(list) == IF list = << >> THEN << >> ELSE Head(list)

\* a request with no query string
NoArgs ==
  [region |-> << >>, schedule |-> << >>, installation |-> << >>,
   final |-> << >>, validated |-> << >>, tile |-> << >>, lot |-> << >>,
   search |-> << >>, full |-> << >>, download |-> << >>]

\* the query strings of the model
Queries ==
  UNION {
    LET b == [NoArgs EXCEPT !.full = f] IN
    {b,
     [b EXCEPT !.region = << " ", "C", "A", "R", " " >>],
     [b EXCEPT !.schedule = << << "F", "e", "b", ".", " ", "0", "4", ",", " ", "2", "0", "2", "6", " ", "-", " ", "-" >> >>],
     [b EXCEPT !.schedule = << << "F", "e", "b", ".", " ", "0", "4", ",", " ", "2", "0", "2", "6", " ", "-", " ", "-" >>, << " ", " " >>,
                               << "F", "e", "b", ".", " ", "0", "3", ",", " ", "2", "0", "2", "6", " ", "-", " ", "F", "e", "b", ".", " ", "0", "5", ",", " ", "2", "0", "2", "6" >> >>],
     [b EXCEPT !.installation = << "S", "2", " ", "-", " ", "F", "a", "i", "l", "e", "d" >>],
     [b EXCEPT !.final = << "D", "o", "n", "e" >>],
     [b EXCEPT !.validated = << "Y", "e", "s" >>],
     [b EXCEPT !.tile = << "a", "p", "p", "r", "o", "v", "a", "l", "_", "p", "e", "n", "d", "i", "n", "g" >>],
     [b EXCEPT !.lot = Lot2],
     [b EXCEPT !.search = << " ", "a", "b", " " >>],
     [b EXCEPT !.download = << "x", "l", "s", "x" >>],
     [b EXCEPT !.lot = Lot1, !.download = << "x", "l", "s", "x" >>]}
    : f \in {<< >>, << "1" >>}}

\* api/index.py lines 278-284 and 292-300: the arguments index() passes
ApiArgs(q) ==
  [selected_region |-> StripOrNone(q.region),
   selected_schedule |-> StripOrNone(FirstArg(q.schedule)),
   schedule_is_list |-> FALSE,
   selected_installation |-> StripOrNone(q.installation),
   selected_tile |-> StripOrNone(q.tile),
   selected_lot |-> StripOrNone(q.lot),
   selected_final |-> NONE,
   selected_validated |-> NONE,
   include_unscheduled |-> (q.full = << "1" >>),
   selected_search |-> StripOrNone(q.search)]

\* auto_table2.py lines 14-32 and 42-52: the arguments index() passes
Auto2Args(q) ==
  [selected_region |-> StripOrNone(q.region),
   selected_schedule |->
     IF raw_schedules(q.schedule) = << >> THEN NONE
     ELSE IF Len(raw_schedules(q.schedule)) = 1
       THEN raw_schedules(q.schedule)[1]
     ELSE raw_schedules(q.schedule),
   schedule_is_list |-> Len(raw_schedules(q.schedule)) > 1,
   selected_installation |-> StripOrNone(q.installation),
   selected_tile |-> StripOrNone(q.tile),
   selected_lot |-> StripOrNone(q.lot),
   selected_final |-> StripOrNone(q.final),
   selected_validated |-> StripOrNone(q.validated),
   include_unscheduled |-> (q.full = << "1" >>),
   selected_search |-> StripOrNone(q.search)]

\* auto_table_core.py lines 172-185 and 631-639: the tuple get_table_data
\* returns, the same seven places on the early and on the normal return
ReturnedTuple(res) ==
  << res.rows, res.region_options, res.schedule_options,
     res.installation_options, res.final_status_options,
     res.validated_options, res.stats >>

\* api/index.py lines 286-292: the names index() unpacks the tuple into
ApiNames ==
  << "rows", "region_options", "schedule_options", "installation_options",
     "stats" >>

\* auto_table2.py lines 34-42: the names index() unpacks the tuple into
Auto2Names ==
  << "rows", "region_options", "schedule_options", "installation_options",
     "final_status_options", "validated_options", "stats" >>

\* (a, b, ...) = tuple raises ValueError unless the counts are the same
Unpack(names, tuple) ==
  IF Len(names) = Len(tuple) THEN "none" ELSE "ValueError"

\* TEMPLATE line 1428: appr = (row["Approval"] or "") | lower
TemplateAppr(row) == Lower(row.Approval)

\* TEMPLATE lines 1466-1475: the class of the approval pill of a row
ApprovalPill(row) ==
  IF TemplateAppr(row) = << "a", "c", "c", "e", "p", "t", "e", "d" >> THEN "status-ok"
  ELSE IF TemplateAppr(row) = << "p", "e", "n", "d", "i", "n", "g" >> \/ TemplateAppr(row) = << >>
    THEN "status-warn"
  ELSE "status-bad"

\* Starlink rows with the one-word approvals
S6 == [S1 EXCEPT !.Approval = << "A", "c", "c", "e", "p", "t", "e", "d" >>]
S7 == [S2 EXCEPT !.Approval = << "p", "e", "n", "d", "i", "n", "g" >>]
S8 == [S4 EXCEPT !.Approval = << " ", "D", "e", "c", "l", "i", "n", "e", "d", " " >>]

\* the sheets the handlers read: those of the calls, and sheets whose
\* approvals are one word
PageSheets ==
  Sheets \cup
  {<< [cols |-> MainCols, rows |-> << M1, M3, M4 >>],
      [cols |-> StarRequired, rows |-> s] >> :
     s \in {<< S6, S8 >>, << S7, S8 >>, << S6, S4, S5 >>}}

\* what the handler h does with what get_table_data gave: an exception of
\* the call goes on to the client, so does a failed unpacking; otherwise the
\* workbook is sent when download=xlsx, the page when not
Answer(h, names, q, res) ==
  [handler |-> h, at |-> "done", query |-> q,
   raised |-> IF res.raised # "none" THEN res.raised
              ELSE Unpack(names, ReturnedTuple(res)),
   response |-> IF res.raised # "none" THEN "none"
                ELSE IF Unpack(names, ReturnedTuple(res)) # "none" THEN "none"
                ELSE IF q.download = << "x", "l", "s", "x" >> THEN "xlsx"
                ELSE "html",
   names |-> names,
   returned |-> IF res.raised = "none" THEN ReturnedTuple(res) ELSE << >>,
   index |-> IF res.raised = "none" THEN res.index ELSE << >>,
   pills |-> IF res.raised # "none" THEN << >>
             ELSE IF Unpack(names, ReturnedTuple(res)) # "none" THEN << >>
             ELSE IF q.download = << "x", "l", "s", "x" >> THEN << >>
             ELSE [k \in 1..Len(res.rows) |-> ApprovalPill(res.rows[k])]]

InitIndex ==
  /\ \E sh \in PageSheets : mainSheet = sh[1] /\ starSheet = sh[2]
  /\ request = NoFilter(FALSE)
  /\ result = Raised("none")
  /\ pc = "idle"
  /\ trip = NoTrip
  /\ calls = << >>
  /\ page = NoPage

\* GET / of api/index.py
ApiIndex(q) ==
  /\ page.at = "idle"
  /\ page' = Answer("api", ApiNames, q,
                    get_table_data(mainSheet, starSheet, ApiArgs(q)))
  /\ UNCHANGED << mainSheet, starSheet, request, result, pc, trip, calls >>

\* GET / of auto_table2.py
Auto2Index(q) ==
  /\ page.at = "idle"
  /\ page' = Answer("auto_table2", Auto2Names, q,
                    get_table_data(mainSheet, starSheet, Auto2Args(q)))
  /\ UNCHANGED << mainSheet, starSheet, request, result, pc, trip, calls >>

\* the response is sent; the handler keeps nothing
Respond ==
  /\ page.at = "done"
  /\ page' = NoPage
  /\ UNCHANGED << mainSheet, starSheet, request, result, pc, trip, calls >>

NextIndex ==
  \/ \E q \in Queries : ApiIndex(q)
  \/ \E q \in Queries : Auto2Index(q)
  \/ Respond

SpecIndex == InitIndex /\ [][NextIndex]_vars

\* C29: index() of api/index.py completes without raising whenever the call
\* of get_table_data it makes returns (on the early return of an empty main
\* sheet and on the normal return): the tuple has as many places as index()
\* unpacks.
C29_ApiIndexCompletes ==
  (page.at = "done" /\ page.handler = "api" /\ page.returned # << >>) =>
    /\ Len(page.returned) = Len(page.names)
    /\ page.raised = "none"

\* the main-sheet row a rendered row comes from
PageRowOf(k) == mainSheet.rows[page.index[k]]

\* the page of auto_table2.py has been rendered
Rendered ==
  page.at = "done" /\ page.handler = "auto_table2" /\ page.response = "html"

\* C30: the approval pill of every rendered row agrees with the row's
\* category in the aggregates: ok exactly when its approval text contains
\* "accept" (counted in approval_accepted), bad exactly when it contains
\* "declin" (counted in approval_decline), warn exactly when it contains
\* neither (counted in approval_pending).
C30_PillAgreesWithAggregates ==
  Rendered =>
    \A k \in 1..Len(page.pills) :
      LET appr == Lower(ApprovalRaw(PageRowOf(k))) IN
      /\ page.pills[k] = "status-ok" <=> Contains(appr, ACCEPT)
      /\ page.pills[k] = "status-bad" <=> Contains(appr, DECLIN)
      /\ page.pills[k] = "status-warn" <=>
           (~Contains(appr, ACCEPT) /\ ~Contains(appr, DECLIN))
=============================================================================
